---- MODULE Spec2Model ----
(***************************************************************************)
(* Model of the Atmos Energy integration (custom_components/atmos_energy). *)
(*                                                                         *)
(* Part 1: the API client (api.py) driven by one acquisition of the        *)
(* coordinator (coordinator.py): rate limit, retry loop, session probe,    *)
(* login sequence, download, and the coordinator's exception mapping.      *)
(* Time is datetime.now() in whole seconds.  A task runs atomically from   *)
(* one await to the next, as coroutines on one asyncio event loop do.      *)
(*                                                                         *)
(* Part 2: the coordinator's cycle over its history, its unsaved keys and  *)
(* the persistent store, with the client's fetch taken as one await.       *)
(*                                                                         *)
(* Spec      one cycle through the whole client                            *)
(* SpecGate  two coroutines calling _request_with_retry on one client      *)
(* SpecCycle two sources beginning cycles of one coordinator               *)
(* SpecDay   one source of cycles, from any hour of the day, hours passing *)
(* SpecDayFair  SpecDay with cycles, deliveries and store accesses that    *)
(*           keep happening                                                *)
(* SpecFlow  one credential validation of config_flow.py over the client   *)
(* SpecEntry the config entry through setup, reauth and options flows, and *)
(*           its diagnostics                                               *)
(* SpecModel the regression model followed over series of daily records    *)
(* SpecCheck the header, content, parse and recalculation functions, each  *)
(*           applied on its own to arguments drawn from bounded sets       *)
(***************************************************************************)
EXTENDS Integers, Sequences, FiniteSets, TLC

\* ------------------------------------------------------------ bounds
\* Horizon of the clock, in seconds.
MaxClock == 11
\* Longest a response is awaited, in seconds (a response, an error or the
\* session's own timeout ends every request).
MaxLatency == 3
\* Horizon of the wall clock, in hours after StartOfDay.
MaxHours == 2

\* Most records of a History handed to _recalculate_model on its own.
MaxRecords == 12

\* ------------------------------------------------- program constants
\* api.py:30  self._min_request_interval = timedelta(seconds=2)
MinRequestInterval == 2
\* api.py:58  max_retries: int = 3
MaxRetries == 3
\* api.py:104 async with asyncio.timeout(10)
ProbeTimeout == 10

\* api.py:29  self._last_request = None; also "no time recorded"
None == -1

Tasks == {1, 2}

\* ------------------------------------------------------ HTTP statuses

\* faulty variant: only 200 counts as success
IsSuccessOnly200(status) == status = 200

\* api.py:77  if status in (200, 302)
IsSuccess(status) == status \in {200, 302}

\* api.py:81  if status in (500, 502, 503, 504)
IsRetriedStatus(status) == status \in {500, 502, 503, 504}

\* faulty variant: the except clause also catches the cancellation
CaughtByRetryWithCancel(exc) == exc \in {"ClientError", "TimeoutError", "CancelledError"}

\* api.py:88  except (aiohttp.ClientError, asyncio.TimeoutError)
CaughtByRetry(exc) == exc \in {"ClientError", "TimeoutError"}

\* api.py:69  for attempt in range(max_retries)
InLoop(a) == a < MaxRetries

\* api.py:82, 89  if attempt == max_retries - 1
IsLastAttempt(a) == a = MaxRetries - 1

\* api.py:92  wait_time = 2 ** attempt
BackoffSeconds(a) == 2 ^ a

\* ------------------------------------------------------------ URLs
\* A final URL is its sequence of path/query segments; str.lower() is the
\* table Lower and "x in lower_url" is Contains.
Lower(seg) ==
  CASE seg = "Login.HTML" -> "login.html"
    [] seg = "successErrorMessage.html" -> "successerrormessage.html"
    [] seg = "UsageHistoryLanding.html" -> "usagehistorylanding.html"
    [] seg = "accountHome.html" -> "accounthome.html"
    [] seg = "<H1>Login</H1>" -> "<h1>login</h1>"
    [] seg = "Session Expired" -> "session expired"
    [] seg = "Temporary Problem" -> "temporary problem"
    [] OTHER -> seg

Contains(url, sub) == \E i \in DOMAIN url : Lower(url[i]) = sub

Urls ==
  { <<"UsageHistoryLanding.html">>, <<"accountHome.html">>,
    <<"login.html">>, <<"Login.HTML">>, <<"authenticate.html">>,
    <<"successErrorMessage.html">>,
    <<"login.html", "successErrorMessage.html">> }

\* the segments a final URL is made of when the check is applied on its own
Segments ==
  { "UsageHistoryLanding.html", "accountHome.html", "login.html", "Login.HTML",
    "authenticate.html", "successErrorMessage.html" }

\* faulty variant: allow_login is ignored
VerifyResponseHeadersStrict(url, allow_login) ==
  IF Contains(url, "login.html") \/ Contains(url, "authenticate.html")
  THEN "AuthenticationError"
  ELSE IF Contains(url, "successerrormessage.html")
       THEN "APIError"
       ELSE "ok"

\* api.py:120-130  _verify_response_headers: the exception it raises, or "ok"
VerifyResponseHeaders(url, allow_login) ==
  IF ~allow_login /\ (Contains(url, "login.html") \/ Contains(url, "authenticate.html"))
  THEN "AuthenticationError"
  ELSE IF Contains(url, "successerrormessage.html")
       THEN "APIError"
       ELSE "ok"

\* ---------------------------------------------------------- bodies
\* A body: whether it has no bytes, whether whitespace leads it, the bytes it
\* starts with after that whitespace, the phrases in it (each as written, and
\* whether it lies beyond the first 10000 bytes of the stripped body), the
\* <input> tags carrying both a name and a value, whether it is a well-formed
\* file of its format, and the table it holds.
LoginIndicators ==
  { "type=\"password\"", "name=\"username\"", "name=\"password\"",
    "name=\"j_username\"", "name=\"j_password\"", "sign in to your account",
    "sign in to the account center", "<h1>login</h1>" }

ErrorIndicators ==
  { "access denied", "session expired", "not authorized", "temporary problem",
    "session ended", "extended inactivity", "security measure",
    "invalid username", "invalid password", "login failed",
    "authentication failed" }

\* api.py:139  stripped_content.startswith((b"<!DOCTYP", b"<html", b"<HTML"))
MarkupPrefixes == { "<!DOCTYP", "<html", "<HTML" }

\* a table: the header cells as written and the rows, each row the cells
\* under those headers
Table(columns, rows) == [columns |-> columns, rows |-> rows]
NoTable == Table(<< >>, << >>)

\* the table of the usage download: a date and a consumption per day
UsageTable == Table(<< "Date", "Consumption" >>, << << "01/30/2026", "10.5" >> >>)

\* the tables the parser is applied to: the usage table; a dated reading
\* followed by rows without a number; a number after a row without one;
\* consumption alone; no consumption column; no row with a number; no row at
\* all; a negative reading
Tables ==
  { UsageTable,
    Table(<< "Read Date", " CONSUMPTION " >>,
          << << "2026-01-29T00:00", "3" >>, << "2026-01-30T00:00", "10.5" >>,
             << "2026-01-31T00:00", "n/a" >> >>),
    Table(<< "Consumption", "Date" >>,
          << << "", "01/29/2026" >>, << "3", "01/30/2026" >> >>),
    Table(<< "Consumption" >>, << << "3" >>, << "0" >> >>),
    Table(<< "Date", "Usage" >>, << << "01/30/2026", "10.5" >> >>),
    Table(<< "Date", "Consumption" >>, << << "01/30/2026", "n/a" >> >>),
    Table(<< "Date", "Consumption" >>, << >>),
    Table(<< "Date", "Consumption" >>,
          << << "01/29/2026", "-2.25" >>, << "01/30/2026", "0" >> >>) }

NoInputs == << >>

\* a phrase within the first 10000 bytes
Near(text) == [text |-> text, beyond |-> FALSE]

EmptyBody == [empty |-> TRUE, lead |-> FALSE, start |-> "", phrases |-> {}, inputs |-> NoInputs, decodes |-> FALSE, table |-> NoTable]
XlsBody == [empty |-> FALSE, lead |-> FALSE, start |-> "xls", phrases |-> {}, inputs |-> NoInputs, decodes |-> TRUE, table |-> UsageTable]
LoginPage ==
  [empty |-> FALSE, lead |-> FALSE, start |-> "<!DOCTYP",
   phrases |-> {Near("type=\"password\""), Near("name=\"username\"")},
   inputs |-> << [name |-> "formId", value |-> "token123"],
                 [name |-> "username", value |-> ""] >>,
   decodes |-> FALSE, table |-> NoTable]

Bodies ==
  { EmptyBody, XlsBody, LoginPage,
    \* text that is no markup, a page without a phrase, a page of an ended session
    [empty |-> FALSE, lead |-> FALSE, start |-> "text", phrases |-> {Near("session expired")}, inputs |-> NoInputs, decodes |-> FALSE, table |-> NoTable],
    [empty |-> FALSE, lead |-> FALSE, start |-> "<html", phrases |-> {}, inputs |-> NoInputs, decodes |-> FALSE, table |-> NoTable],
    [empty |-> FALSE, lead |-> FALSE, start |-> "<HTML", phrases |-> {Near("extended inactivity")}, inputs |-> NoInputs, decodes |-> FALSE, table |-> NoTable] }

AllBodies ==
  { EmptyBody } \cup
  [ empty : {FALSE}, lead : BOOLEAN, start : { "<!DOCTYP", "<html", "<HTML", "<!doctype", "<header", "xls" }, phrases : SUBSET
      { Near("<H1>Login</H1>"), Near("Session Expired"), Near("update username/password"), Near("Temporary Problem"), [text |-> "session ended", beyond |-> TRUE] },
    inputs : {NoInputs}, decodes : BOOLEAN, table : {UsageTable} ]

\* the payloads _parse_xls_data is applied to for what it returns: a
\* spreadsheet in the modern or the legacy format, a page of markup or plain
\* text, each holding one of the tables or nothing after the whitespace
TableBodies ==
  { b \in [ empty : {FALSE}, lead : BOOLEAN, start : { "xlsx", "xls", "<html", "text", "" },
            phrases : {{}},
            inputs : {NoInputs}, decodes : BOOLEAN, table : Tables ] :
      /\ b.start = "" => (b.lead /\ ~b.decodes /\ b.table = UsageTable)
      /\ b.start = "text" => (~b.decodes /\ b.table = UsageTable) }

\* api.py:138  content.lstrip()
LStrip(body) == [body EXCEPT !.lead = FALSE]

\* api.py:139  bytes.startswith
StartsWith(body, prefixes) == ~body.lead /\ body.start \in prefixes

\* api.py:141  stripped_content[:10000].decode(...).lower(), as the phrases in it
HtmlText(body) == { Lower(p.text) : p \in { q \in body.phrases : ~q.beyond } }

\* faulty variant: the marker is looked for in the body as received
VerifyContentUnstripped(body) ==
  IF body.empty THEN "ok"
  ELSE IF StartsWith(body, MarkupPrefixes)
       THEN IF HtmlText(body) \cap (LoginIndicators \cup ErrorIndicators) # {}
            THEN "AuthenticationError"
            ELSE "ok"
       ELSE "ok"

\* api.py:132-178  _verify_content: the exception it raises, or "ok"
VerifyContent(body) ==
  IF body.empty THEN "ok"
  ELSE LET stripped_content == LStrip(body)
       IN IF StartsWith(stripped_content, MarkupPrefixes)
          THEN IF HtmlText(stripped_content) \cap LoginIndicators # {}
               THEN "AuthenticationError"
               ELSE IF HtmlText(stripped_content) \cap ErrorIndicators # {}
                    THEN "AuthenticationError"
                    ELSE "ok"
          ELSE "ok"

\* Python dict.update: entries of e replace those of d
DictUpdate(d, e) ==
  [k \in DOMAIN d \cup DOMAIN e |-> IF k \in DOMAIN e THEN e[k] ELSE d[k]]

EmptyDict == [k \in {} |-> ""]

\* api.py:180-186  _get_form_tokens: later tags overwrite earlier ones
RECURSIVE TokensOf(_)
TokensOf(inputs) ==
  IF inputs = << >> THEN EmptyDict
  ELSE LET n == Len(inputs)
           rest == TokensOf(SubSeq(inputs, 1, n - 1))
       IN DictUpdate(rest, [k \in {inputs[n].name} |-> inputs[n].value])

GetFormTokens(body) == TokensOf(body.inputs)

\* api.py:25-26  the client's credentials
Username == "user@example.com"
Password == "secret"

\* faulty variant: the scraped tokens are applied over the credentials
LoginFormDataTokensLast(body) ==
  DictUpdate([k \in {"username", "password", "button.Login"} |->
                CASE k = "username" -> Username
                  [] k = "password" -> Password
                  [] OTHER -> "Login"],
             GetFormTokens(body))

\* api.py:201-206  tokens scraped from the login page, then the credentials
LoginFormData(body) ==
  DictUpdate(GetFormTokens(body),
             [k \in {"username", "password", "button.Login"} |->
                CASE k = "username" -> Username
                  [] k = "password" -> Password
                  [] OTHER -> "Login"])

\* api.py:258-261  pd.read_excel, then pd.read_excel with engine='xlrd'.
\* pandas picks the reader by the signature the bytes begin with: a zip
\* archive goes to the modern reader, a compound document to the legacy one,
\* and neither reads anything else
ReadExcel(stripped) ==
  IF ~stripped.lead /\ stripped.start = "xlsx" /\ stripped.decodes THEN "openpyxl"
  ELSE IF ~stripped.lead /\ stripped.start = "xls" /\ stripped.decodes THEN "xlrd"
  ELSE "Exception"

\* faulty variant: the header cells are lowercased but not trimmed
ColumnNameUntrimmed(c) ==
  CASE c = "Date" -> "date"
    [] c = "Consumption" -> "consumption"
    [] c = "Read Date" -> "read date"
    [] c = " CONSUMPTION " -> " consumption "
    [] c = "Usage" -> "usage"

\* api.py:267  str(c).lower().strip() of the header cells of the sample tables
ColumnName(c) ==
  CASE c = "Date" -> "date"
    [] c = "Consumption" -> "consumption"
    [] c = "Read Date" -> "read date"
    [] c = " CONSUMPTION " -> "consumption"
    [] c = "Usage" -> "usage"

\* pd.to_numeric(..., errors='coerce'): the cells that are numbers, in
\* hundredths; every other cell becomes NaN
NumericValue ==
  [c \in { "10.5", "3", "0", "-2.25" } |->
      CASE c = "10.5" -> 1050
        [] c = "3" -> 300
        [] c = "0" -> 0
        [] c = "-2.25" -> 0 - 225]

\* str() of a cell of the date column: a cell pandas read as a timestamp is
\* written as date and time, a text cell stays as it is
Str(cell) == IF cell = "2026-01-29T00:00" THEN "2026-01-29 00:00:00"
             ELSE IF cell = "2026-01-30T00:00" THEN "2026-01-30 00:00:00"
             ELSE IF cell = "2026-01-31T00:00" THEN "2026-01-31 00:00:00"
             ELSE cell

\* Python's None in the place of a string
NoString == "None"

\* what _parse_impl returns or raises
ParseResult(raised, total, latest, last_date, first_date) ==
  [raised |-> raised, total_usage |-> total, latest_usage |-> latest,
   latest_date |-> last_date, billing_period_start |-> first_date]

ParseFailure(exc) == ParseResult(exc, 0, 0, NoString, NoString)

RECURSIVE SumOf(_, _)
SumOf(rows, col) ==
  IF rows = << >> THEN 0
  ELSE NumericValue[rows[Len(rows)][col]] + SumOf(SubSeq(rows, 1, Len(rows) - 1), col)

\* faulty variant: the first row gives the latest usage
TotalsLatestFirst(df, col) ==
  [total_usage |-> SumOf(df, col),
   latest_usage |-> IF df = << >> THEN 0 ELSE NumericValue[df[1][col]]]

\* api.py:279-280  the sum and the last of the cleaned consumption column
Totals(df, col) ==
  [total_usage |-> SumOf(df, col),
   latest_usage |-> IF df = << >> THEN 0 ELSE NumericValue[df[Len(df)][col]]]

\* faulty variant: the payload goes to the readers as it was received
ParseImplUnstripped(body) ==
  IF ReadExcel(body) = "Exception" THEN ParseFailure("DataParseError")
  ELSE
       LET columns == [i \in DOMAIN body.table.columns |-> ColumnName(body.table.columns[i])]
           First(names) ==
             IF \E i \in DOMAIN columns : columns[i] \in names
             THEN CHOOSE i \in DOMAIN columns :
                    columns[i] \in names /\ \A j \in 1..(i - 1) : columns[j] \notin names
             ELSE 0
           consumption == First({"consumption"})
           date_col == First({"date", "read date"})
       IN IF consumption = 0 THEN ParseFailure("DataParseError")
          ELSE LET df == SelectSeq(body.table.rows,
                                   LAMBDA row : row[consumption] \in DOMAIN NumericValue)
               IN ParseResult("none", Totals(df, consumption).total_usage,
                              Totals(df, consumption).latest_usage,
                              IF date_col # 0 /\ df # << >>
                              THEN Str(df[Len(df)][date_col]) ELSE NoString,
                              IF date_col # 0 /\ df # << >>
                              THEN Str(df[1][date_col]) ELSE NoString)

\* api.py:250-293  _parse_impl: content.strip() to the readers; the column
\* names normalized; the consumption column required; the first column
\* whose name contains 'date'; to_numeric and dropna; the sum, the last
\* value and the dates of the first and the last row left
ParseImpl(body) ==
  IF ReadExcel([body EXCEPT !.lead = FALSE]) = "Exception" THEN ParseFailure("DataParseError")
  ELSE
       LET columns == [i \in DOMAIN body.table.columns |-> ColumnName(body.table.columns[i])]
           First(names) ==
             IF \E i \in DOMAIN columns : columns[i] \in names
             THEN CHOOSE i \in DOMAIN columns :
                    columns[i] \in names /\ \A j \in 1..(i - 1) : columns[j] \notin names
             ELSE 0
           consumption == First({"consumption"})
           date_col == First({"date", "read date"})
       IN IF consumption = 0 THEN ParseFailure("DataParseError")
          ELSE LET df == SelectSeq(body.table.rows,
                                   LAMBDA row : row[consumption] \in DOMAIN NumericValue)
               IN ParseResult("none", Totals(df, consumption).total_usage,
                              Totals(df, consumption).latest_usage,
                              IF date_col # 0 /\ df # << >>
                              THEN Str(df[Len(df)][date_col]) ELSE NoString,
                              IF date_col # 0 /\ df # << >>
                              THEN Str(df[1][date_col]) ELSE NoString)

\* api.py:249-296  _parse_impl is handed to the executor only when the
\* verification raised nothing
ReachesDecoder(body) == VerifyContent(body) = "ok"

\* faulty variant: the payload is decoded before it is verified
ParseXlsDataDecodeFirst(body) ==
  IF ParseImpl(body).raised # "none" THEN ParseImpl(body).raised ELSE VerifyContent(body)

\* api.py:247-296  _parse_xls_data: content verification first, then decoding
ParseXlsData(body) ==
  IF VerifyContent(body) # "ok" THEN VerifyContent(body)
  ELSE IF ParseImpl(body).raised = "none" THEN "ok" ELSE ParseImpl(body).raised

\* ------------------------------------------------------ exceptions
\* asyncio.CancelledError derives from BaseException, the others from Exception
IsException(exc) == exc # "CancelledError"

\* faulty variant: only the authentication failure is caught
CheckSessionCatchesAuthOnly(exc) == exc = "AuthenticationError"

\* api.py:114-118  except (AuthenticationError, APIError) / except Exception
CheckSessionCatches(exc) ==
  exc \in {"AuthenticationError", "APIError"} \/ IsException(exc)

\* faulty variant: an API failure starts the re-authentication too
CycleOutcomeReauthAlways(exc) ==
  IF IsException(exc)
  THEN [raised |-> "UpdateFailed", reauth |-> exc \in {"AuthenticationError", "APIError"}, cause |-> exc]
  ELSE [raised |-> exc, reauth |-> FALSE, cause |-> exc]

\* coordinator.py:293-301  what _async_update_data raises for a failed fetch
CycleOutcome(exc) ==
  IF exc = "AuthenticationError"
  THEN [raised |-> "UpdateFailed", reauth |-> TRUE, cause |-> exc]
  ELSE IF exc \in {"APIError", "DataParseError", "ClientError"}
       THEN [raised |-> "UpdateFailed", reauth |-> FALSE, cause |-> exc]
       ELSE IF IsException(exc)
            THEN [raised |-> "UpdateFailed", reauth |-> FALSE, cause |-> exc]
            ELSE [raised |-> exc, reauth |-> FALSE, cause |-> exc]

NoOutcome == [raised |-> "pending", reauth |-> FALSE, cause |-> "none"]
Returned == [raised |-> "none", reauth |-> FALSE, cause |-> "none"]

\* ------------------------------------------------------- history
RetentionDays == 90
MinHistory == 10
MinPoints == 10
UpdateHour == 7

\* A date string is a day number and a form: "date" (YYYY-MM-DD),
\* "datetime" (YYYY-MM-DD HH:MM:SS), "us" (MM/DD/YYYY) or "none" (the
\* record has no date).
Date(day, form) == [day |-> day, form |-> form]

\* coordinator.py:247  if date_str
HasDate(date) == date.form # "none"

\* faulty variant: every form is brought to YYYY-MM-DD
KeyOfNormalized(date) == Date(date.day, "date")

\* coordinator.py:248  date_str.split(" ")[0]: a time suffix is cut off, a
\* string without a space is the key as it stands
KeyOf(date) == IF date.form = "datetime" THEN Date(date.day, "date") ELSE date

\* coordinator.py:259-268  the local midnight a key parses to, in hours
KeyTime(key) == key.day * 24

\* coordinator.py:255, 270  dt < now - timedelta(days=90)
TooOld(key, now) == KeyTime(key) < now - RetentionDays * 24

\* faulty variant: a record replaces the one held under its key
MergeRecordOverwriting(m, record) ==
  LET key == KeyOf(record.date)
  IN IF HasDate(record.date) /\ (key \notin DOMAIN m.history \/ m.history[key] # record)
     THEN [history |-> DictUpdate(m.history, [k \in {key} |-> record]),
           unsaved |-> m.unsaved \cup {key},
           updated |-> TRUE]
     ELSE m

\* coordinator.py:245-252  one pass of the merge loop: a record whose key is
\* already present is skipped
MergeRecord(m, record) ==
  LET key == KeyOf(record.date)
  IN IF HasDate(record.date) /\ key \notin DOMAIN m.history
     THEN [history |-> DictUpdate(m.history, [k \in {key} |-> record]),
           unsaved |-> m.unsaved \cup {key},
           updated |-> TRUE]
     ELSE m

\* coordinator.py:243-252  the merge loop over new_history
RECURSIVE Merge(_, _, _)
Merge(h, u, feed) ==
  IF feed = << >> THEN [history |-> h, unsaved |-> u, updated |-> FALSE]
  ELSE LET n == Len(feed)
       IN MergeRecord(Merge(h, u, SubSeq(feed, 1, n - 1)), feed[n])

\* dt_util.parse_datetime of a string without a UTC offset gives a naive
\* datetime when it parses the string at all; whether it parses a date-only
\* string depends on the host's version ("naive": it does; "aware": it
\* returns None and the strptime fallback gives a local, aware datetime)
DateParsers == {"aware", "naive"}

\* coordinator.py:259-268  the datetime a key parses to: MM/DD/YYYY is not
\* ISO, so the strptime fallback and as_local make it aware; a key with a
\* time suffix and no offset is parsed by parse_datetime, naive; a date-only
\* key goes the way the host's parser decides
ParsedAs(key, parser) ==
  CASE key.form = "us" -> "aware"
    [] key.form = "datetime" -> "naive"
    [] OTHER -> parser

\* coordinator.py:270  dt < cutoff with a naive dt and the aware cutoff
CompareRaises(h, parser) == \E k \in DOMAIN h : ParsedAs(k, parser) = "naive"

\* faulty variant: a record dated exactly 90 days back is removed too
PruneInclusive(h, u, now, parser) ==
  IF CompareRaises(h, parser)
  THEN [history |-> h, unsaved |-> u, updated |-> FALSE, raised |-> "TypeError"]
  ELSE LET keys_to_remove == {k \in DOMAIN h : KeyTime(k) <= now - RetentionDays * 24}
       IN [history |-> [k \in DOMAIN h \ keys_to_remove |-> h[k]],
           unsaved |-> u \ keys_to_remove,
           updated |-> keys_to_remove # {},
           raised |-> "none"]

\* coordinator.py:254-276  pruning: the comparison of the first naive datetime
\* raises before any key is deleted
Prune(h, u, now, parser) ==
  IF CompareRaises(h, parser)
  THEN [history |-> h, unsaved |-> u, updated |-> FALSE, raised |-> "TypeError"]
  ELSE LET keys_to_remove == {k \in DOMAIN h : TooOld(k, now)}
       IN [history |-> [k \in DOMAIN h \ keys_to_remove |-> h[k]],
           unsaved |-> u \ keys_to_remove,
           updated |-> keys_to_remove # {},
           raised |-> "none"]

\* coordinator.py:101-105  the records that make a data point: usage above
\* zero and a known average temperature
DataPoints(h) == { k \in DOMAIN h : h[k].usage > 0 /\ h[k].avg_temp # None }

\* ---------------------------------------------------- regression model
\* usage, base_load and intercepts are in hundredths of a CCF, heating_coeff
\* and r_squared in ten-thousandths, temperatures in whole degrees

\* const.py as coordinator.py:20-22 imports it: the coefficients the sensor
\* was written with
DEFAULT_BASE_LOAD == 123
DEFAULT_HEATING_COEFF == 970
DEFAULT_BALANCE_TEMP == 65

GridLow == 55
GridHigh == 75
FullSearchStep == 10
MinBaseLoad == 10
BalanceLow == 50
BalanceHigh == 80

\* coordinator.py:43-47  the coefficients after __init__
DefaultModel ==
  [base_load |-> DEFAULT_BASE_LOAD, heating_coeff |-> DEFAULT_HEATING_COEFF,
   balance_temp |-> DEFAULT_BALANCE_TEMP, r_squared |-> 0,
   last_optimization_count |-> 0]

RECURSIVE Sum(_, _)
Sum(f, S) ==
  IF S = {} THEN 0
  ELSE LET k == CHOOSE e \in S : TRUE IN f[k] + Sum(f, S \ {k})

\* round(): the integer nearest to num / den, a half going to the even one
Round(num, den) ==
  LET q == num \div den
      r == num % den
  IN IF 2 * r < den THEN q
     ELSE IF 2 * r > den THEN q + 1
     ELSE IF q % 2 = 0 THEN q ELSE q + 1

\* round(10^digits * m / ss) by long division, for a mixed number m <= ss
RECURSIVE Quotient(_, _, _, _)
Quotient(m, ss, digits, q) ==
  IF digits = 0
  THEN LET twice == [int |-> 2 * m.int + (2 * m.num) \div m.den, num |-> (2 * m.num) % m.den]
       IN IF twice.int < ss THEN q
          ELSE IF twice.int > ss \/ twice.num > 0 THEN q + 1
          ELSE IF q % 2 = 0 THEN q ELSE q + 1
  ELSE LET int10 == 10 * m.int + (10 * m.num) \div m.den
       IN Quotient([int |-> int10 % ss, num |-> (10 * m.num) % m.den, den |-> m.den],
                   ss, digits - 1, 10 * q + int10 \div ss)

\* coordinator.py:197-223  _fit_linear_regression over the data points P:
\* slope and intercept as exact fractions; r_squared = 1 - sse / ss_tot;
\* sse as n times its value (n is the same for every candidate), a whole
\* part and a fraction num / den below one. With a the numerator and d the
\* denominator of the slope, n * sse = n * ss_tot - a * a / d.
FitLinearRegression(P, x, y) ==
  LET n == Cardinality(P)
      sum_x == Sum(x, P)
      sum_y == Sum(y, P)
      sum_xy == Sum([k \in P |-> x[k] * y[k]], P)
      sum_x2 == Sum([k \in P |-> x[k] * x[k]], P)
      sum_y2 == Sum([k \in P |-> y[k] * y[k]], P)
      denominator == n * sum_x2 - sum_x * sum_x
      numerator == n * sum_xy - sum_x * sum_y
      ss_tot == n * sum_y2 - sum_y * sum_y
      a == IF numerator < 0 THEN 0 - numerator ELSE numerator
      q == a \div denominator
      r == a % denominator
      explained == [int |-> q * (a + r) + (r * r) \div denominator,
                    num |-> (r * r) % denominator, den |-> denominator]
  IN IF denominator = 0 THEN [fitted |-> FALSE]
     ELSE [fitted |-> TRUE,
           slope |-> [num |-> numerator, den |-> denominator],
           intercept |-> [num |-> sum_y * denominator - numerator * sum_x,
                          den |-> n * denominator],
           sse |-> IF explained.num = 0
                   THEN [int |-> ss_tot - explained.int, num |-> 0, den |-> denominator]
                   ELSE [int |-> ss_tot - explained.int - 1,
                         num |-> denominator - explained.num, den |-> denominator],
           r_squared |-> IF ss_tot > 0
                         THEN Quotient([int |-> explained.int % ss_tot, num |-> explained.num,
                                        den |-> explained.den],
                                       ss_tot, 4, explained.int \div ss_tot)
                         ELSE 0]

\* faulty variant: the balance temperature is subtracted without the floor
HeatingDegreesUnfloored(balance, temp) == balance - temp

\* coordinator.py:120, 132  max(0, balance - temp)
HeatingDegrees(balance, temp) == IF balance - temp > 0 THEN balance - temp ELSE 0

\* What the floating-point evaluation of n * sum_x2 - sum_x ** 2 leaves when
\* the inputs are identical and not binary fractions (0.7 is not, 0.5 is):
\* exactly zero, or a rounding residue, and then the slope is the quotient of
\* two residues - 0.0 and 4.0, in hundredths of CCF per degree, stand for it.
Residues ==
  { [zero |-> TRUE, slope |-> 0], [zero |-> FALSE, slope |-> 0], [zero |-> FALSE, slope |-> 400] }

\* coordinator.py:120-123, 132-134  the fit of one balance temperature. The
\* temperatures are whole degrees, to which the records of one series add
\* the same tenths; those series hold a single temperature, so that the
\* inputs of a candidate are all zero or all identical.
FitAt(h, P, balance, residue) ==
  LET Tenths(k) == IF "tenths" \in DOMAIN h[k] THEN h[k].tenths ELSE 0
      x == [k \in P |-> HeatingDegrees(balance, h[k].avg_temp)]
      y == [k \in P |-> h[k].usage]
      WithResidue(f, n, sum_y, sum_y2, x10) ==
        IF f.fitted \/ residue.zero \/ ~(\E k \in P : x[k] > 0 /\ Tenths(k) \notin {0, 5})
        THEN f
        ELSE [fitted |-> TRUE,
              slope |-> [num |-> residue.slope, den |-> 1],
              intercept |-> [num |-> 10 * sum_y - n * residue.slope * x10, den |-> 10 * n],
              sse |-> [int |-> n * sum_y2 - sum_y * sum_y, num |-> 0, den |-> 1],
              r_squared |-> 0]
  IN WithResidue(FitLinearRegression(P, x, y), Cardinality(P), Sum(y, P),
                 Sum([k \in P |-> y[k] * y[k]], P),
                 CHOOSE v \in { 10 * x[k] - Tenths(k) : k \in P } : TRUE)

\* coordinator.py:115-127  the grid search: the candidates with a slope whose
\* sse no other candidate undercuts. Candidates that fit equally well have
\* sums of squares that differ by rounding errors only (of the order 1e-30
\* for an exact fit), so which of them `sse < best_sse` keeps is not fixed by
\* the data: each of them is a possible outcome.
BestCandidates(h, P, residue) ==
  LET fitting == { c \in GridLow..GridHigh : FitAt(h, P, c, residue).fitted }
      Less(m1, m2) == \/ m1.int < m2.int
                      \/ m1.int = m2.int /\ m1.num * m2.den < m2.num * m1.den
  IN { c \in fitting :
         \A d \in fitting : ~Less(FitAt(h, P, d, residue).sse, FitAt(h, P, c, residue).sse) }

\* coordinator.py:141-174  the guardrails and the rounding of a fit
StoreModel(f, balance, count) ==
  [base_load |-> IF f.intercept.num < 0 THEN MinBaseLoad
                 ELSE Round(f.intercept.num, f.intercept.den),
   heating_coeff |-> IF f.slope.num < 0 THEN 0 ELSE Round(100 * f.slope.num, f.slope.den),
   balance_temp |-> IF balance < BalanceLow \/ balance > BalanceHigh
                    THEN DEFAULT_BALANCE_TEMP ELSE balance,
   r_squared |-> f.r_squared,
   last_optimization_count |-> count]

\* coordinator.py:88-195  _recalculate_model, as the models it can leave:
\* the defaults below MinHistory records; with fewer than MinPoints data
\* points it returns at once; a full search when the data points grew by
\* FullSearchStep since the last one, else a fit at the balance temperature
\* held
RecalculateModel(h, m) ==
  IF Cardinality(DOMAIN h) < MinHistory
  THEN { [base_load |-> DEFAULT_BASE_LOAD, heating_coeff |-> DEFAULT_HEATING_COEFF,
          balance_temp |-> DEFAULT_BALANCE_TEMP, r_squared |-> 0,
          last_optimization_count |-> m.last_optimization_count] }
  ELSE LET data_points == DataPoints(h)
           current_count == Cardinality(data_points)
           With(residue) ==
             IF current_count - m.last_optimization_count >= FullSearchStep
             THEN LET best == BestCandidates(h, data_points, residue)
                  IN IF best = {}
                     THEN { [m EXCEPT !.last_optimization_count = current_count] }
                     ELSE { StoreModel(FitAt(h, data_points, c, residue), c, current_count) :
                              c \in best }
             ELSE LET f == FitAt(h, data_points, m.balance_temp, residue)
                  IN IF f.fitted
                     THEN { StoreModel(f, m.balance_temp, m.last_optimization_count) }
                     ELSE {m}
       IN IF current_count < MinPoints THEN {m}
          ELSE UNION { With(residue) :
                         residue \in IF \E k \in data_points : "tenths" \in DOMAIN h[k]
                                     THEN Residues
                                     ELSE { [zero |-> TRUE, slope |-> 0] } }

\* faulty variant: 07:00 sharp counts as not yet reached
ScheduleNextUpdateInclusive(now) ==
  IF (now % 24) <= UpdateHour THEN UpdateHour - (now % 24)
  ELSE 24 - (now % 24) + UpdateHour

\* coordinator.py:307-322  _schedule_next_update: hours until the next 7 AM
ScheduleNextUpdate(now) ==
  IF (now % 24) < UpdateHour THEN UpdateHour - (now % 24)
  ELSE 24 - (now % 24) + UpdateHour

NoInput == [fn |-> "none"]
NoOutput == [result |-> "none", decoded |-> FALSE]

\* Store.async_load() of an empty store
NoStore == [present |-> FALSE, history |-> EmptyDict]

\* the hour the model's wall clock starts at: midnight of day 100
StartOfDay == 100 * 24

\* the oldest day whose records are still kept at StartOfDay
KeptDay == StartOfDay \div 24 - RetentionDays

\* the temperature the sample records carry
MildDay == 60

OldRecord == [date |-> Date(KeptDay, "datetime"), usage |-> 3, avg_temp |-> MildDay]
NewRecord == [date |-> Date(KeptDay + RetentionDays, "date"), usage |-> 1, avg_temp |-> MildDay]
NewRecordAgain == [date |-> Date(KeptDay + RetentionDays, "datetime"), usage |-> 2, avg_temp |-> None]
UsRecord == [date |-> Date(KeptDay + RetentionDays, "us"), usage |-> 4, avg_temp |-> MildDay]

\* a History of n records on the days 1..n, the first u of them data points,
\* the others lacking what `lacking` names
SampleHistory(n, u, lacking) ==
  [ k \in { Date(d, "date") : d \in 1..n } |->
      [date |-> k,
       usage |-> IF k.day > u /\ lacking = "usage" THEN 0 ELSE 1,
       avg_temp |-> IF k.day > u /\ lacking = "avg_temp" THEN None ELSE MildDay] ]

\* data["history"] as a fetch can return it
Feeds ==
  { << >>, << OldRecord, NewRecord >>, << NewRecordAgain, UsRecord >>,
    << [date |-> Date(None, "none"), usage |-> 1, avg_temp |-> MildDay] >> }

\* the arguments the checks are applied to on their own
CheckInputs ==
  { [fn |-> "verify_response_headers", url |-> u, allow_login |-> a] :
      u \in { << x >> : x \in Segments } \cup { << x, y >> : x \in Segments, y \in Segments },
      a \in BOOLEAN } \cup
  { [fn |-> f, body |-> b] : f \in {"verify_content", "parse_xls_data"}, b \in AllBodies } \cup
  { [fn |-> "parse_xls_data", body |-> b] : b \in TableBodies } \cup
  { [fn |-> "recalculate_model"] }

\* a series of daily records: usage = b + c * max(0, T - temp) on each day,
\* with the day's temperature from temps
Series(b, c, T, temps) == [fn |-> "series", b |-> b, c |-> c, T |-> T, temps |-> temps]

\* a series of days of one temperature, of whole degrees and tenths
SteadySeries(b, c, T, whole, tenths) ==
  [fn |-> "steady", b |-> b, c |-> c, T |-> T, temps |-> [d \in 1..MaxRecords |-> whole],
   tenths |-> tenths]

\* the days lo..n of a series as a History
SeriesHistory(s, lo, n) ==
  [ k \in { Date(d, "date") : d \in lo..n } |->
      IF s.fn = "steady"
      THEN [date |-> k,
            usage |-> s.b + (s.c * (IF s.T > s.temps[k.day]
                                    THEN 10 * (s.T - s.temps[k.day]) - s.tenths ELSE 0)) \div 10,
            avg_temp |-> s.temps[k.day], tenths |-> s.tenths]
      ELSE [date |-> k,
            usage |-> s.b + s.c * (IF s.T > s.temps[k.day] THEN s.T - s.temps[k.day] ELSE 0),
            avg_temp |-> s.temps[k.day]] ]

\* the series _recalculate_model is followed over: heating days only (the
\* data of test_perfect_linear_regression), days on both sides of the balance
\* temperature (test_balance_temp_autodetect), a cold spell followed by mild
\* days, a household with a base load of 0.05, usage rising with the
\* temperature (test_negative_slope_clamping), warm days only, and heating
\* days whose line meets the axis below zero, and days of one temperature:
\* 60.3 and 60.5 degrees
SampleSeries ==
  { Series(150, 10, 65, [d \in 1..MaxRecords |-> 65 - d]),
    Series(100, 20, 70, [d \in 1..MaxRecords |-> 80 - 2 * d]),
    Series(100, 20, 70, [d \in 1..MaxRecords |-> IF d <= 10 THEN 50 + d ELSE 50 + 2 * d]),
    Series(5, 10, 65, [d \in 1..MaxRecords |-> 59 + d]),
    Series(300, 0 - 10, 70, [d \in 1..MaxRecords |-> 50 + d]),
    Series(100, 20, 70, [d \in 1..MaxRecords |-> 75 + d]),
    Series(0 - 50, 10, 70, [d \in 1..MaxRecords |-> 49 + d]),
    SteadySeries(100, 20, 70, 60, 3), SteadySeries(100, 20, 70, 60, 5) }

\* what a fetch can raise
FetchErrors == {"AuthenticationError", "APIError", "DataParseError", "ClientError", "KeyError"}

\* ------------------------------------------------------------- state
VARIABLES
  clock,         \* datetime.now(), in seconds
  last_request,  \* client._last_request (None before the first request)
  pc,            \* per task: where the coroutine is suspended
  step,          \* per task: the logical request in progress
  attempt,       \* per task: loop variable of _request_with_retry
  rl_now,        \* per task: `now` read by the _rate_limit call in progress
  wakeAt,        \* per task: when the asyncio.sleep in progress ends
  deadline,      \* per task: when check_session's asyncio.timeout expires
  result,        \* per task: what the last logical request returned or raised
  outcome,       \* per task: how the acquisition cycle ended
  reqLog,        \* per task: the logical requests issued, in order
  httpCount,     \* per task: HTTP requests sent by the current logical request
  lastResp,      \* per task: status of the last response of that request
  sentAt,        \* per task: when its last HTTP request was sent
  failedAt,      \* per task: when the previous attempt failed transiently
  failKind,      \* per task: how it failed
  prevSendAt,    \* client: start time of the HTTP request before the last
  lastSendAt,    \* client: start time of the last HTTP request
  cancelled,     \* per task: the await at which the task was cancelled, or "no"
  sessionValid,  \* per task: what check_session returned, once it has
  portal,        \* what the portal can answer: [statuses, urls, bodies]
  history,       \* coordinator._history
  unsaved_keys,  \* coordinator._unsaved_keys
  stored,        \* the content of the persistent store
  saving,        \* per task: the `history` local of _async_save_history
  modelFit,      \* coordinator's coefficients and _last_optimization_count
  wallclock,     \* dt_util.now(), in hours
  update_interval, \* coordinator.update_interval, in hours
  dateParse,     \* what dt_util.parse_datetime makes of a date-only string
  input,         \* the arguments of a function applied on its own
  output,        \* what it returned or raised
  new_history,   \* per task: data["history"] of the fetch of the cycle
  recalculations, \* per task: calls of _recalculate_model in the cycle
  history_loaded \* whether _async_load_history has run to its end

vars ==
  << clock, last_request, pc, step, attempt, rl_now, wakeAt, deadline, result,
     outcome, reqLog, httpCount, lastResp, sentAt, failedAt, failKind,
     prevSendAt, lastSendAt, cancelled, sessionValid, portal,
     history, unsaved_keys, stored, saving, modelFit, wallclock, update_interval,
     dateParse, input, output, new_history, recalculations, history_loaded >>

\* the host's date parser and the functions applied on their own
auxVars == << dateParse, input, output >>

\* what is observed of the cycles
cycleVars == << new_history, recalculations, history_loaded >>

\* the coordinator's own state
coordVars == << history, unsaved_keys, stored, saving, modelFit, wallclock, update_interval >>

\* what a logical request writes, apart from pc
requestVars ==
  << last_request, step, attempt, rl_now, wakeAt, reqLog, httpCount, lastResp,
     sentAt, failedAt, failKind, prevSendAt, lastSendAt >>

\* the awaits of the coordinator: the store and the fetch taken as one await
CycleAwaits == {"load", "fetch", "save_load", "save_write"}

Suspended == {"rl_sleep", "http", "backoff", "parse"} \cup CycleAwaits

NoResult == [kind |-> "none"]

\* the requests of api.py: login() and get_daily_usage()
RequestOf(s, data) ==
  CASE s = "probe"      -> [step |-> s, method |-> "get", url |-> "UsageHistoryLanding.html", data |-> data]
    [] s = "login_get"  -> [step |-> s, method |-> "get", url |-> "login.html", data |-> data]
    [] s = "login_post" -> [step |-> s, method |-> "post", url |-> "authenticate.html", data |-> data]
    [] s = "landing"    -> [step |-> s, method |-> "get", url |-> "UsageHistoryLanding.html", data |-> data]
    [] s = "download"   -> [step |-> s, method |-> "get", url |-> "dailyUsageDownload.html", data |-> data]

\* No task is between the return of a logical request and its caller's next await.
NoTransient == \A t \in Tasks : pc[t] # "returned"

\* api.py:72  the HTTP request is sent; n requests were sent before it
Send(t, n) ==
  /\ pc' = [pc EXCEPT ![t] = "http"]
  /\ sentAt' = [sentAt EXCEPT ![t] = clock]
  /\ httpCount' = [httpCount EXCEPT ![t] = n + 1]
  /\ prevSendAt' = lastSendAt
  /\ lastSendAt' = clock

\* api.py:45-49  the wait _rate_limit computes (0: no sleep)
RateLimitWait(now) ==
  IF last_request # None /\ now - last_request < MinRequestInterval
  THEN MinRequestInterval - (now - last_request)
  ELSE 0

\* api.py:43-52, 71-72  _rate_limit, up to its await or through to the request
RateLimit(t, n) ==
  LET now == clock IN
  IF RateLimitWait(now) > 0
  THEN /\ pc' = [pc EXCEPT ![t] = "rl_sleep"]
       /\ rl_now' = [rl_now EXCEPT ![t] = now]
       /\ wakeAt' = [wakeAt EXCEPT ![t] = clock + RateLimitWait(now)]
       /\ httpCount' = [httpCount EXCEPT ![t] = n]
       /\ UNCHANGED << last_request, sentAt, prevSendAt, lastSendAt >>
  ELSE /\ last_request' = now
       /\ Send(t, n)
       /\ rl_now' = [rl_now EXCEPT ![t] = None]
       /\ wakeAt' = [wakeAt EXCEPT ![t] = None]

\* The logical request ends: it returns or raises to its caller.
EndRequest(t, res) ==
  /\ pc' = [pc EXCEPT ![t] = "returned"]
  /\ result' = [result EXCEPT ![t] = res]

Raise(exc) == [kind |-> "raise", exc |-> exc, byDeadline |-> FALSE]

\* api.py:69-71  loop iteration a of _request_with_retry begins
BeginAttempt(t, a) ==
  IF InLoop(a)
  THEN /\ attempt' = [attempt EXCEPT ![t] = a]
       /\ RateLimit(t, httpCount[t])
       /\ UNCHANGED result
  ELSE \* api.py:97  the loop ran out
       /\ EndRequest(t, Raise("APIError"))
       /\ UNCHANGED << attempt, last_request, rl_now, wakeAt, sentAt, httpCount,
                       prevSendAt, lastSendAt >>

\* api.py:54-71  _request_with_retry is called for step s
StartRequest(t, s, data) ==
  /\ step' = [step EXCEPT ![t] = s]
  /\ reqLog' = [reqLog EXCEPT ![t] = Append(@, RequestOf(s, data))]
  /\ lastResp' = [lastResp EXCEPT ![t] = None]
  /\ failedAt' = [failedAt EXCEPT ![t] = None]
  /\ failKind' = [failKind EXCEPT ![t] = "none"]
  /\ attempt' = [attempt EXCEPT ![t] = 0]
  /\ RateLimit(t, 0)

\* --------------------------------------------------------- actions
\* coordinator.py:293-305  the cycle ends with exception exc
Finish(t, exc) ==
  /\ pc' = [pc EXCEPT ![t] = "done"]
  /\ outcome' = [outcome EXCEPT ![t] = CycleOutcome(exc)]

\* coordinator.py:231-238, api.py:298-300, 229-231, 188-190, 99-110
\* A cycle starts: _async_update_data -> get_account_data -> get_daily_usage
\* -> login -> check_session, whose probe request begins.
BeginProbe(t) ==
  /\ deadline' = [deadline EXCEPT ![t] = clock + ProbeTimeout]
  /\ StartRequest(t, "probe", EmptyDict)

\* coordinator.py:231-238  the cycle begins: the store is loaded first while
\* the history is empty
Trigger(t) ==
  /\ pc[t] = "idle"
  /\ NoTransient
  /\ UNCHANGED cycleVars
  /\ IF DOMAIN history = {}
     THEN /\ pc' = [pc EXCEPT ![t] = "load"]
          /\ step' = [step EXCEPT ![t] = "load"]
          /\ UNCHANGED << deadline, last_request, attempt, rl_now, wakeAt, reqLog,
                          httpCount, lastResp, sentAt, failedAt, failKind,
                          prevSendAt, lastSendAt >>
     ELSE BeginProbe(t)
  /\ UNCHANGED << clock, result, outcome, cancelled, sessionValid >>
  /\ UNCHANGED portal
  /\ UNCHANGED coordVars
  /\ UNCHANGED auxVars

\* coordinator.py:56-65, 234-238  _async_load_history returns (a failure is
\* logged, not raised) and the fetch begins
LoadDone(t) ==
  /\ pc[t] = "load"
  /\ NoTransient
  /\ \E ok \in BOOLEAN :
       IF ok /\ stored # NoStore
       THEN /\ history' = stored.history
            /\ modelFit' \in RecalculateModel(stored.history, modelFit)
            /\ recalculations' = [recalculations EXCEPT ![t] = @ + 1]
       ELSE UNCHANGED << history, modelFit, recalculations >>
  /\ history_loaded' = TRUE
  /\ UNCHANGED new_history
  /\ IF step[t] = "fetch"
     THEN /\ pc' = [pc EXCEPT ![t] = "fetch"]
          /\ UNCHANGED << deadline, requestVars >>
     ELSE BeginProbe(t)
  /\ UNCHANGED << clock, result, outcome, cancelled, sessionValid, portal,
                  unsaved_keys, stored, saving, wallclock, update_interval >>
  /\ UNCHANGED auxVars

\* api.py:51-52, 72  the rate-limit sleep ends and the request is sent
RateLimitWake(t) ==
  /\ pc[t] = "rl_sleep"
  /\ NoTransient
  /\ clock >= wakeAt[t]
  /\ last_request' = rl_now[t]
  /\ Send(t, httpCount[t])
  /\ rl_now' = [rl_now EXCEPT ![t] = None]
  /\ wakeAt' = [wakeAt EXCEPT ![t] = None]
  /\ UNCHANGED << clock, step, attempt, deadline, result, outcome,
                  reqLog, lastResp, failedAt, failKind, cancelled, sessionValid >>
  /\ UNCHANGED portal
  /\ UNCHANGED coordVars
  /\ UNCHANGED auxVars
  /\ UNCHANGED cycleVars

\* api.py:72-78  a 200 or 302 response: the logical request returns
HttpSuccess(t) ==
  /\ pc[t] = "http"
  /\ NoTransient
  /\ \E status \in portal.statuses, url \in portal.urls, body \in portal.bodies :
       /\ IsSuccess(status)
       /\ lastResp' = [lastResp EXCEPT ![t] = status]
       /\ EndRequest(t, [kind |-> "ok", status |-> status, url |-> url, body |-> body])
  /\ UNCHANGED << clock, last_request, step, attempt, rl_now, wakeAt, deadline,
                  outcome, reqLog, httpCount, sentAt, failedAt, failKind,
                  prevSendAt, lastSendAt, cancelled, sessionValid >>
  /\ UNCHANGED portal
  /\ UNCHANGED coordVars
  /\ UNCHANGED auxVars
  /\ UNCHANGED cycleVars

\* api.py:80-86  any other response
HttpFailure(t) ==
  /\ pc[t] = "http"
  /\ NoTransient
  /\ \E status \in portal.statuses :
       /\ ~IsSuccess(status)
       /\ lastResp' = [lastResp EXCEPT ![t] = status]
       /\ IF IsRetriedStatus(status) /\ ~IsLastAttempt(attempt[t])
          THEN \* falls out of the if and the try: next iteration, no sleep
               /\ failedAt' = [failedAt EXCEPT ![t] = clock]
               /\ failKind' = [failKind EXCEPT ![t] = "5xx"]
               /\ BeginAttempt(t, attempt[t] + 1)
          ELSE \* APIError is not caught by the except clause of api.py:88
               /\ EndRequest(t, Raise("APIError"))
               /\ UNCHANGED << attempt, last_request, rl_now, wakeAt, sentAt,
                               httpCount, prevSendAt, lastSendAt, failedAt, failKind >>
  /\ UNCHANGED << clock, step, deadline, outcome, reqLog, cancelled, sessionValid >>
  /\ UNCHANGED portal
  /\ UNCHANGED coordVars
  /\ UNCHANGED auxVars
  /\ UNCHANGED cycleVars

\* api.py:70-72, 88-95  an await inside the try raises exc
RaiseInTry(t, exc, byDeadline) ==
  IF CaughtByRetry(exc)
  THEN IF IsLastAttempt(attempt[t])
       THEN /\ EndRequest(t, Raise("APIError"))
            /\ UNCHANGED << wakeAt, failedAt, failKind >>
       ELSE /\ pc' = [pc EXCEPT ![t] = "backoff"]
            /\ wakeAt' = [wakeAt EXCEPT ![t] = clock + BackoffSeconds(attempt[t])]
            /\ failedAt' = [failedAt EXCEPT ![t] = clock]
            /\ failKind' = [failKind EXCEPT ![t] = exc]
            /\ UNCHANGED result
  ELSE /\ EndRequest(t, [kind |-> "raise", exc |-> exc, byDeadline |-> byDeadline])
       /\ UNCHANGED << wakeAt, failedAt, failKind >>

\* api.py:72-75, 88  the request raises aiohttp.ClientError or asyncio.TimeoutError
HttpError(t) ==
  /\ pc[t] = "http"
  /\ NoTransient
  /\ \E exc \in {"ClientError", "TimeoutError"} : RaiseInTry(t, exc, FALSE)
  /\ UNCHANGED << clock, last_request, step, attempt, rl_now, deadline, outcome,
                  reqLog, httpCount, lastResp, sentAt, prevSendAt, lastSendAt,
                  cancelled, sessionValid >>
  /\ UNCHANGED portal
  /\ UNCHANGED coordVars
  /\ UNCHANGED auxVars
  /\ UNCHANGED cycleVars

\* api.py:95, 69-72  the backoff sleep ends: next iteration
BackoffWake(t) ==
  /\ pc[t] = "backoff"
  /\ NoTransient
  /\ clock >= wakeAt[t]
  /\ BeginAttempt(t, attempt[t] + 1)
  /\ UNCHANGED << clock, step, deadline, outcome, reqLog, lastResp, failedAt,
                  failKind, cancelled, sessionValid >>
  /\ UNCHANGED portal
  /\ UNCHANGED coordVars
  /\ UNCHANGED auxVars
  /\ UNCHANGED cycleVars

\* The task is cancelled while suspended: CancelledError is raised at its await.
\* api.py:51, 72 (inside the try), api.py:95 (inside the except clause),
\* api.py:296 (the executor call of _parse_xls_data)
Cancel(t) ==
  /\ pc[t] \in Suspended
  /\ NoTransient
  /\ cancelled' = [cancelled EXCEPT ![t] = pc[t]]
  /\ IF pc[t] \in {"rl_sleep", "http"}
     THEN RaiseInTry(t, "CancelledError", FALSE) /\ UNCHANGED outcome
     ELSE IF pc[t] \in CycleAwaits
          THEN \* coordinator.py:64, 85, 293-305  no handler catches it
               /\ Finish(t, "CancelledError")
               /\ UNCHANGED << result, wakeAt, failedAt, failKind >>
          ELSE /\ EndRequest(t, Raise("CancelledError"))
               /\ UNCHANGED << wakeAt, failedAt, failKind, outcome >>
  /\ update_interval' = IF pc'[t] = "done" THEN ScheduleNextUpdate(wallclock)
                        ELSE update_interval
  /\ UNCHANGED << clock, last_request, step, attempt, rl_now, deadline,
                  reqLog, httpCount, lastResp, sentAt, prevSendAt, lastSendAt,
                  sessionValid >>
  /\ UNCHANGED << portal, history, unsaved_keys, stored, saving, modelFit, wallclock >>
  /\ UNCHANGED auxVars
  /\ UNCHANGED cycleVars

\* api.py:104  asyncio.timeout(10) expires during the probe: it cancels the
\* await in progress and turns the CancelledError into TimeoutError on exit.
ProbeDeadline(t) ==
  /\ step[t] = "probe"
  /\ pc[t] \in {"rl_sleep", "http", "backoff"}
  /\ NoTransient
  /\ clock >= deadline[t]
  /\ IF pc[t] \in {"rl_sleep", "http"}
     THEN RaiseInTry(t, "CancelledError", TRUE)
     ELSE /\ EndRequest(t, [kind |-> "raise", exc |-> "CancelledError", byDeadline |-> TRUE])
          /\ UNCHANGED << wakeAt, failedAt, failKind >>
  /\ UNCHANGED << clock, last_request, step, attempt, rl_now, deadline, outcome,
                  reqLog, httpCount, lastResp, sentAt, prevSendAt, lastSendAt,
                  cancelled, sessionValid >>
  /\ UNCHANGED portal
  /\ UNCHANGED coordVars
  /\ UNCHANGED auxVars
  /\ UNCHANGED cycleVars

\* api.py:99-118  check_session, from the end of its probe request:
\* "True", "False", or the exception that escapes it
CheckSession(r) ==
  IF r.kind = "ok"
  THEN LET h == VerifyResponseHeaders(r.url, FALSE)
           e == IF h # "ok" THEN h ELSE VerifyContent(r.body)
       IN IF e = "ok" THEN "True"
          ELSE IF CheckSessionCatches(e) THEN "False" ELSE e
  ELSE LET e == IF r.byDeadline THEN "TimeoutError" ELSE r.exc
       IN IF CheckSessionCatches(e) THEN "False" ELSE e

\* faulty variant: only the final URL is verified
StepCheckUrlOnly(s, r) == VerifyResponseHeaders(r.url, s \in {"login_get", "login_post"})

\* api.py:199, 217-218, 224-225, 242-243  the verification after each step:
\* the exception it raises, or "ok"
StepCheck(s, r) ==
  CASE s = "login_get" -> VerifyResponseHeaders(r.url, TRUE)
    [] s = "login_post" ->
         IF VerifyResponseHeaders(r.url, TRUE) # "ok"
         THEN VerifyResponseHeaders(r.url, TRUE) ELSE VerifyContent(r.body)
    [] s \in {"landing", "download"} ->
         IF VerifyResponseHeaders(r.url, FALSE) # "ok"
         THEN VerifyResponseHeaders(r.url, FALSE) ELSE VerifyContent(r.body)

\* api.py:188-245  the order of the requests of login() and get_daily_usage()
NextStep(s) ==
  CASE s = "login_get" -> "login_post"
    [] s = "login_post" -> "landing"
    [] s = "landing" -> "download"

\* api.py:201-216 (POST data), 239 (download params)
DataFor(s, r) ==
  CASE s = "login_post" -> LoginFormData(r.body)
    [] s = "download" -> [k \in {"billingPeriod"} |-> "Current"]
    [] OTHER -> EmptyDict

\* The caller of a logical request continues up to its next await.
\* api.py:111-118, 190-227, 231-245
Resume(t) ==
  /\ pc[t] = "returned"
  /\ LET r == result[t]
         s == step[t]
     IN IF s = "probe"
        THEN LET c == CheckSession(r)
             IN IF c = "True"
                THEN StartRequest(t, "download", DataFor("download", r)) /\ UNCHANGED outcome
                ELSE IF c = "False"
                     THEN StartRequest(t, "login_get", EmptyDict) /\ UNCHANGED outcome
                     ELSE /\ Finish(t, c)
                          /\ UNCHANGED << last_request, step, attempt, rl_now, wakeAt,
                                          reqLog, httpCount, lastResp, sentAt, failedAt,
                                          failKind, prevSendAt, lastSendAt >>
        ELSE LET e == IF r.kind = "raise" THEN r.exc ELSE StepCheck(s, r)
             IN IF e # "ok"
                THEN /\ Finish(t, e)
                     /\ UNCHANGED << last_request, step, attempt, rl_now, wakeAt,
                                     reqLog, httpCount, lastResp, sentAt, failedAt,
                                     failKind, prevSendAt, lastSendAt >>
                ELSE IF s = "download"
                     THEN /\ pc' = [pc EXCEPT ![t] = "parse"]
                          /\ step' = [step EXCEPT ![t] = "parse"]
                          /\ UNCHANGED << last_request, attempt, rl_now, wakeAt, outcome,
                                          reqLog, httpCount, lastResp, sentAt, failedAt,
                                          failKind, prevSendAt, lastSendAt >>
                     ELSE /\ StartRequest(t, NextStep(s), DataFor(NextStep(s), r))
                          /\ UNCHANGED outcome
  /\ sessionValid' = [sessionValid EXCEPT ![t] =
                        IF step[t] = "probe" /\ CheckSession(result[t]) \in {"True", "False"}
                        THEN CheckSession(result[t]) ELSE @]
  /\ result' = [result EXCEPT ![t] =
                  IF pc'[t] = "parse" THEN [kind |-> "payload", body |-> @.body]
                  ELSE IF pc'[t] = "done" THEN @ ELSE NoResult]
  /\ deadline' = [deadline EXCEPT ![t] = None]
  /\ update_interval' = IF pc'[t] = "done" THEN ScheduleNextUpdate(wallclock)
                        ELSE update_interval
  /\ UNCHANGED << clock, cancelled >>
  /\ UNCHANGED << portal, history, unsaved_keys, stored, saving, modelFit, wallclock >>
  /\ UNCHANGED auxVars
  /\ UNCHANGED cycleVars

\* coordinator.py:240-291  the cycle has its data; feed is data["history"]
HandleData(t, feed) ==
  /\ new_history' = [new_history EXCEPT ![t] = feed]
  /\ UNCHANGED history_loaded
  /\ IF feed = << >>
       THEN /\ pc' = [pc EXCEPT ![t] = "done"]
            /\ outcome' = [outcome EXCEPT ![t] = Returned]
            /\ UNCHANGED << history, unsaved_keys, modelFit, recalculations >>
       ELSE LET m == Merge(history, unsaved_keys, feed)
                p == Prune(m.history, m.unsaved, wallclock, dateParse)
                updated == m.updated \/ p.updated
            IN /\ history' = p.history
               /\ unsaved_keys' = p.unsaved
               /\ IF p.raised # "none"
                  THEN \* coordinator.py:299-301  except Exception
                       /\ Finish(t, p.raised)
                       /\ UNCHANGED << modelFit, recalculations >>
                  ELSE /\ IF updated
                          THEN /\ modelFit' \in RecalculateModel(p.history, modelFit)
                               /\ recalculations' = [recalculations EXCEPT ![t] = @ + 1]
                          ELSE UNCHANGED << modelFit, recalculations >>
                       /\ IF updated /\ p.unsaved # {}
                          THEN \* coordinator.py:70-74  _async_save_history awaits the store
                               /\ pc' = [pc EXCEPT ![t] = "save_load"]
                               /\ UNCHANGED outcome
                          ELSE /\ pc' = [pc EXCEPT ![t] = "done"]
                               /\ outcome' = [outcome EXCEPT ![t] = Returned]

\* api.py:245-308, coordinator.py:238-305  the executor finishes parsing;
\* get_account_data's result has no "history" entry
ParseDone(t) ==
  /\ pc[t] = "parse"
  /\ NoTransient
  /\ LET e == ParseXlsData(result[t].body)
     IN IF e = "ok"
        THEN HandleData(t, << >>)
        ELSE Finish(t, e) /\ UNCHANGED << history, unsaved_keys, modelFit >>
                          /\ UNCHANGED cycleVars
  /\ result' = [result EXCEPT ![t] = NoResult]
  /\ update_interval' = IF pc'[t] = "done" THEN ScheduleNextUpdate(wallclock)
                        ELSE update_interval
  /\ UNCHANGED << clock, last_request, step, attempt, rl_now, wakeAt, deadline,
                  reqLog, httpCount, lastResp, sentAt, failedAt, failKind,
                  prevSendAt, lastSendAt, cancelled, sessionValid >>
  /\ UNCHANGED << portal, stored, saving, wallclock >>
  /\ UNCHANGED auxVars

\* ---------------------------------------- the cycle over an abstract fetch
\* coordinator.py:231-238  a cycle begins; client.get_account_data is one await
Refresh(t) ==
  /\ pc[t] \in {"idle", "done"}
  /\ step' = [step EXCEPT ![t] = "fetch"]
  /\ pc' = [pc EXCEPT ![t] = IF DOMAIN history = {} THEN "load" ELSE "fetch"]
  /\ UNCHANGED history_loaded
  /\ new_history' = [new_history EXCEPT ![t] = << >>]
  /\ recalculations' = [recalculations EXCEPT ![t] = 0]
  /\ outcome' = [outcome EXCEPT ![t] = NoOutcome]
  /\ cancelled' = [cancelled EXCEPT ![t] = "no"]
  /\ UNCHANGED << clock, last_request, attempt, rl_now, wakeAt, deadline, result,
                  reqLog, httpCount, lastResp, sentAt, failedAt, failKind,
                  prevSendAt, lastSendAt, sessionValid, portal >>
  /\ UNCHANGED coordVars
  /\ UNCHANGED auxVars

\* coordinator.py:238-291  the fetch returns data
FetchReturns(t) ==
  /\ pc[t] = "fetch"
  /\ \E feed \in Feeds : HandleData(t, feed)
  /\ update_interval' = IF pc'[t] = "done" THEN ScheduleNextUpdate(wallclock)
                        ELSE update_interval
  /\ UNCHANGED << clock, last_request, step, attempt, rl_now, wakeAt, deadline, result,
                  reqLog, httpCount, lastResp, sentAt, failedAt, failKind,
                  prevSendAt, lastSendAt, cancelled, sessionValid, portal >>
  /\ UNCHANGED << stored, saving, wallclock >>
  /\ UNCHANGED auxVars

\* coordinator.py:238, 293-305  the fetch raises
FetchRaises(t) ==
  /\ pc[t] = "fetch"
  /\ \E exc \in FetchErrors : Finish(t, exc)
  /\ update_interval' = ScheduleNextUpdate(wallclock)
  /\ UNCHANGED << clock, last_request, step, attempt, rl_now, wakeAt, deadline, result,
                  reqLog, httpCount, lastResp, sentAt, failedAt, failKind,
                  prevSendAt, lastSendAt, cancelled, sessionValid, portal >>
  /\ UNCHANGED << history, unsaved_keys, stored, saving, modelFit, wallclock >>
  /\ UNCHANGED auxVars
  /\ UNCHANGED cycleVars

\* coordinator.py:74-82  _async_save_history: the store is read, the unsaved
\* keys still in the history are laid over it, and the write begins; a failed
\* read is logged and the cycle returns its data
SaveLoaded(t) ==
  /\ pc[t] = "save_load"
  /\ \E ok \in BOOLEAN :
       IF ok
       THEN LET base == IF stored = NoStore THEN EmptyDict ELSE stored.history
                keys == unsaved_keys \cap DOMAIN history
            IN /\ saving' = [saving EXCEPT ![t] =
                               DictUpdate(base, [k \in keys |-> history[k]])]
               /\ pc' = [pc EXCEPT ![t] = "save_write"]
               /\ UNCHANGED outcome
       ELSE /\ pc' = [pc EXCEPT ![t] = "done"]
            /\ outcome' = [outcome EXCEPT ![t] = Returned]
            /\ UNCHANGED saving
  /\ update_interval' = IF pc'[t] = "done" THEN ScheduleNextUpdate(wallclock)
                        ELSE update_interval
  /\ UNCHANGED << clock, last_request, step, attempt, rl_now, wakeAt, deadline, result,
                  reqLog, httpCount, lastResp, sentAt, failedAt, failKind,
                  prevSendAt, lastSendAt, cancelled, sessionValid, portal >>
  /\ UNCHANGED << history, unsaved_keys, stored, modelFit, wallclock >>
  /\ UNCHANGED auxVars
  /\ UNCHANGED cycleVars

\* coordinator.py:82-86, 282-305  the write ends: on success the unsaved set
\* is cleared; either way the cycle returns its data
SaveWritten(t) ==
  /\ pc[t] = "save_write"
  /\ \E ok \in BOOLEAN :
       IF ok
       THEN /\ stored' = [present |-> TRUE, history |-> saving[t]]
            /\ unsaved_keys' = {}
       ELSE UNCHANGED << stored, unsaved_keys >>
  /\ saving' = [saving EXCEPT ![t] = EmptyDict]
  /\ pc' = [pc EXCEPT ![t] = "done"]
  /\ outcome' = [outcome EXCEPT ![t] = Returned]
  /\ update_interval' = ScheduleNextUpdate(wallclock)
  /\ UNCHANGED << clock, last_request, step, attempt, rl_now, wakeAt, deadline, result,
                  reqLog, httpCount, lastResp, sentAt, failedAt, failKind,
                  prevSendAt, lastSendAt, cancelled, sessionValid, portal >>
  /\ UNCHANGED << history, modelFit, wallclock >>
  /\ UNCHANGED auxVars
  /\ UNCHANGED cycleVars

\* An hour passes.
Hour ==
  /\ wallclock - StartOfDay < MaxHours
  /\ wallclock' = wallclock + 1
  /\ UNCHANGED << clock, last_request, pc, step, attempt, rl_now, wakeAt, deadline,
                  result, outcome, reqLog, httpCount, lastResp, sentAt, failedAt,
                  failKind, prevSendAt, lastSendAt, cancelled, sessionValid, portal >>
  /\ UNCHANGED << history, unsaved_keys, stored, saving, modelFit, update_interval >>
  /\ UNCHANGED auxVars
  /\ UNCHANGED cycleVars

\* ------------------------------------- two callers of _request_with_retry
\* api.py:54-71  a coroutine calls _request_with_retry
Call(t) ==
  /\ pc[t] = "idle"
  /\ NoTransient
  /\ StartRequest(t, "download", DataFor("download", NoResult))
  /\ UNCHANGED << clock, deadline, result, outcome, cancelled, sessionValid, portal >>
  /\ UNCHANGED coordVars
  /\ UNCHANGED auxVars
  /\ UNCHANGED cycleVars

\* api.py:78, 83, 86, 91, 97  the call returns or raises to that coroutine
Return(t) ==
  /\ pc[t] = "returned"
  /\ pc' = [pc EXCEPT ![t] = "done"]
  /\ outcome' = [outcome EXCEPT ![t] =
                   IF result[t].kind = "ok" THEN Returned
                   ELSE [raised |-> result[t].exc, reauth |-> FALSE, cause |-> result[t].exc]]
  /\ result' = [result EXCEPT ![t] = NoResult]
  /\ UNCHANGED << clock, last_request, step, attempt, rl_now, wakeAt, deadline,
                  reqLog, httpCount, lastResp, sentAt, failedAt, failKind,
                  prevSendAt, lastSendAt, cancelled, sessionValid, portal >>
  /\ UNCHANGED coordVars
  /\ UNCHANGED auxVars
  /\ UNCHANGED cycleVars

\* Something of task t is due now: a sleep has run its time, a response has
\* been awaited for MaxLatency, or the probe's timeout has expired.
Due(t) ==
  \/ pc[t] \in {"rl_sleep", "backoff"} /\ clock >= wakeAt[t]
  \/ pc[t] = "http" /\ clock - sentAt[t] >= MaxLatency
  \/ step[t] = "probe" /\ pc[t] \in {"rl_sleep", "http", "backoff"} /\ clock >= deadline[t]

\* A second passes.
Tick ==
  /\ clock < MaxClock
  /\ NoTransient
  /\ \E t \in Tasks : pc[t] \in {"rl_sleep", "http", "backoff"}
  /\ \A t \in Tasks : ~Due(t)
  /\ clock' = clock + 1
  /\ UNCHANGED << last_request, pc, step, attempt, rl_now, wakeAt, deadline, result,
                  outcome, reqLog, httpCount, lastResp, sentAt, failedAt, failKind,
                  prevSendAt, lastSendAt, cancelled, sessionValid >>
  /\ UNCHANGED portal
  /\ UNCHANGED coordVars
  /\ UNCHANGED auxVars
  /\ UNCHANGED cycleVars

\* api.py:18-34  a new client; the tasks in `callers` are about to use it
InitWith(callers, answers) ==
  /\ portal = answers
  /\ unsaved_keys = {}
  /\ saving = [t \in Tasks |-> EmptyDict]
  /\ update_interval = 24
  /\ output = NoOutput
  /\ new_history = [t \in Tasks |-> << >>]
  /\ recalculations = [t \in Tasks |-> 0]
  /\ history_loaded = FALSE
  /\ clock = 0
  /\ last_request = None
  /\ pc = [t \in Tasks |-> IF t \in callers THEN "idle" ELSE "off"]
  /\ step = [t \in Tasks |-> "none"]
  /\ attempt = [t \in Tasks |-> 0]
  /\ rl_now = [t \in Tasks |-> None]
  /\ wakeAt = [t \in Tasks |-> None]
  /\ deadline = [t \in Tasks |-> None]
  /\ result = [t \in Tasks |-> NoResult]
  /\ outcome = [t \in Tasks |-> NoOutcome]
  /\ reqLog = [t \in Tasks |-> << >>]
  /\ httpCount = [t \in Tasks |-> 0]
  /\ lastResp = [t \in Tasks |-> None]
  /\ sentAt = [t \in Tasks |-> None]
  /\ failedAt = [t \in Tasks |-> None]
  /\ failKind = [t \in Tasks |-> "none"]
  /\ prevSendAt = None
  /\ lastSendAt = None
  /\ cancelled = [t \in Tasks |-> "no"]
  /\ sessionValid = [t \in Tasks |-> "unknown"]

\* every answer the portal can give
AnyAnswer == [statuses |-> {200, 302, 404, 500, 501, 503}, urls |-> Urls, bodies |-> Bodies]

\* the portal is up and the session is valid: every page is the spreadsheet
GoodAnswer == [statuses |-> {200, 500}, urls |-> {<<"dailyUsageDownload.html">>}, bodies |-> {XlsBody}]

\* one cycle over the whole client, on a new installation
Init ==
  /\ InitWith({1}, AnyAnswer)
  /\ input = NoInput
  /\ history = EmptyDict
  /\ modelFit = DefaultModel
  /\ stored = NoStore
  /\ wallclock = StartOfDay
  /\ dateParse = "aware"

\* two coroutines call the client
InitGate ==
  /\ InitWith(Tasks, GoodAnswer)
  /\ input = NoInput
  /\ history = EmptyDict
  /\ modelFit = DefaultModel
  /\ stored = NoStore
  /\ wallclock = StartOfDay
  /\ dateParse = "aware"

\* two sources can begin a cycle; the store is empty or holds one record
InitCycle ==
  /\ InitWith(Tasks, GoodAnswer)
  /\ input = NoInput
  /\ history = EmptyDict
  /\ modelFit = DefaultModel
  /\ wallclock \in {StartOfDay, StartOfDay + 1}
  /\ dateParse \in DateParsers
  /\ stored \in {NoStore, [present |-> TRUE,
                          history |-> [k \in {KeyOf(OldRecord.date)} |-> OldRecord]]}

Next ==
  \/ Tick
  \/ \E t \in Tasks :
       \/ Trigger(t)
       \/ RateLimitWake(t)
       \/ HttpSuccess(t)
       \/ HttpFailure(t)
       \/ HttpError(t)
       \/ BackoffWake(t)
       \/ Cancel(t)
       \/ ProbeDeadline(t)
       \/ Resume(t)
       \/ ParseDone(t)
       \/ LoadDone(t)

Spec == Init /\ [][Next]_vars

NextGate ==
  \/ Tick
  \/ \E t \in Tasks :
       \/ Call(t)
       \/ RateLimitWake(t)
       \/ HttpSuccess(t)
       \/ HttpFailure(t)
       \/ HttpError(t)
       \/ BackoffWake(t)
       \/ Return(t)

SpecGate == InitGate /\ [][NextGate]_vars

NextCycle ==
  \/ \E t \in Tasks :
       \/ Refresh(t)
       \/ LoadDone(t)
       \/ FetchReturns(t)
       \/ FetchRaises(t)
       \/ SaveLoaded(t)
       \/ SaveWritten(t)
       \/ Cancel(t)

SpecCycle == InitCycle /\ [][NextCycle]_vars

\* one source of cycles, at any hour of the day
InitDay ==
  /\ InitWith({1}, GoodAnswer)
  /\ input = NoInput
  /\ history = EmptyDict
  /\ modelFit = DefaultModel
  /\ wallclock \in {StartOfDay + h : h \in 0..23}
  /\ dateParse \in DateParsers
  /\ stored \in {NoStore, [present |-> TRUE,
                          history |-> [k \in {KeyOf(OldRecord.date)} |-> OldRecord]]}

NextDay ==
  \/ Hour
  \/ NextCycle

SpecDay == InitDay /\ [][NextDay]_vars

\* coordinator.py:29-35, 303-305  the host keeps calling _async_update_data
\* at update_interval; and, as the premises of the progress properties have
\* it, the portal answers with data again and again and a load and a write of
\* the store succeed when they are attempted again and again
SpecDayFair ==
  /\ SpecDay
  /\ WF_vars(NextCycle)
  /\ SF_vars(\E t \in Tasks : FetchReturns(t) /\ new_history'[t] # << >>)
  /\ SF_vars(\E t \in Tasks : SaveLoaded(t) /\ pc'[t] = "save_write")
  /\ SF_vars(\E t \in Tasks : SaveWritten(t) /\ unsaved_keys' = {})

\* ------------------------------------------------ credential validation
\* config_flow.py:32-76, 107-139, 154-184  the validations: the flow that runs
\* and the daily-usage choice of the user's input
FlowInputs ==
  { f \in [ fn : {"flow"}, flow : {"user", "reauth", "options"}, daily_usage : BOOLEAN ] :
      f.flow # "user" => f.daily_usage }

\* config_flow.py:49-62, 117-128, 165-182  what the step answers when its try
\* block ended with exc ("none": it ran to its return)
FlowResult(flow, daily_usage, exc) ==
  IF exc = "none"
  THEN CASE flow = "user" -> IF daily_usage THEN "step_cost" ELSE "create_entry"
         [] flow = "reauth" -> "reauth_successful"
         [] flow = "options" -> "create_entry"
  ELSE IF exc = "AuthenticationError" THEN "invalid_auth"
       ELSE IF IsException(exc)
            THEN IF flow = "reauth" THEN "unknown" ELSE "cannot_connect"
            ELSE exc

\* faulty variant: the session is forgotten without being closed
CloseForgetting(session) == IF session = "open" THEN "leaked" ELSE session

\* api.py:310-314  close() on the client's session
Close(session) == IF session = "open" THEN "closed" ELSE session

\* config_flow.py:45-48, api.py:18-41, 66, 188-190, 99-110  the step builds
\* its own client and awaits login(): check_session's probe begins, on a
\* session the client creates for it
FlowStart(t) ==
  /\ input.fn = "flow"
  /\ pc[t] = "idle"
  /\ NoTransient
  /\ BeginProbe(t)
  /\ output' = [result |-> "pending", decoded |-> FALSE, session |-> "open"]
  /\ UNCHANGED << clock, result, outcome, cancelled, sessionValid, portal,
                  dateParse, input >>
  /\ UNCHANGED coordVars
  /\ UNCHANGED cycleVars

\* The try block of the step has ended with exc; the finally clause is next.
FlowEnds(t, exc) ==
  /\ pc' = [pc EXCEPT ![t] = "closing"]
  /\ outcome' = [outcome EXCEPT ![t] = [raised |-> exc, reauth |-> FALSE, cause |-> exc]]
  /\ output' = [output EXCEPT !.result = FlowResult(input.flow, input.daily_usage, exc)]

\* api.py:111-118, 190-227, config_flow.py:48-62, 117-128, 165-182
\* login() continues from the end of a request up to its next await, or it
\* ends and the step goes on to its own next await
FlowResume(t) ==
  /\ input.fn = "flow"
  /\ pc[t] = "returned"
  /\ LET r == result[t]
         s == step[t]
         e == IF s = "probe"
              THEN CASE CheckSession(r) = "True" -> "none"
                     [] CheckSession(r) = "False" -> "continue"
                     [] OTHER -> CheckSession(r)
              ELSE IF r.kind = "raise" THEN r.exc
                   ELSE IF StepCheck(s, r) # "ok" THEN StepCheck(s, r)
                        ELSE IF s = "landing" THEN "none" ELSE "continue"
         next == IF s = "probe" THEN "login_get" ELSE NextStep(s)
     IN IF e = "continue"
        THEN /\ StartRequest(t, next, DataFor(next, r))
             /\ UNCHANGED << outcome, output >>
        ELSE /\ IF e = "none" /\ input.flow = "reauth"
                THEN \* config_flow.py:118-122  the entry is updated and reloaded
                     /\ pc' = [pc EXCEPT ![t] = "reload"]
                     /\ UNCHANGED << outcome, output >>
                ELSE FlowEnds(t, e)
             /\ UNCHANGED requestVars
  /\ sessionValid' = [sessionValid EXCEPT ![t] =
                        IF step[t] = "probe" /\ CheckSession(result[t]) \in {"True", "False"}
                        THEN CheckSession(result[t]) ELSE @]
  /\ result' = [result EXCEPT ![t] = NoResult]
  /\ deadline' = [deadline EXCEPT ![t] = None]
  /\ UNCHANGED << clock, cancelled, portal, dateParse, input >>
  /\ UNCHANGED coordVars
  /\ UNCHANGED cycleVars

\* config_flow.py:122-128  async_reload returns, raises, or is cancelled
FlowReloaded(t) ==
  /\ pc[t] = "reload"
  /\ \E exc \in {"none", "HomeAssistantError", "CancelledError"} : FlowEnds(t, exc)
  /\ UNCHANGED << clock, deadline, result, cancelled, sessionValid, portal,
                  dateParse, input >>
  /\ UNCHANGED requestVars
  /\ UNCHANGED coordVars
  /\ UNCHANGED cycleVars

\* config_flow.py:63-64, 129-130, 183-184  finally: await client.close(),
\* and the step returns or raises
FlowClose(t) ==
  /\ pc[t] = "closing"
  /\ pc' = [pc EXCEPT ![t] = "done"]
  /\ output' = [output EXCEPT !.session = Close(@)]
  /\ UNCHANGED << clock, deadline, result, outcome, cancelled, sessionValid, portal,
                  dateParse, input >>
  /\ UNCHANGED requestVars
  /\ UNCHANGED coordVars
  /\ UNCHANGED cycleVars

InitFlow ==
  /\ InitWith({1}, AnyAnswer)
  /\ input \in FlowInputs
  /\ history = EmptyDict
  /\ modelFit = DefaultModel
  /\ stored = NoStore
  /\ wallclock = StartOfDay
  /\ dateParse = "aware"

NextFlow ==
  \/ Tick
  \/ \E t \in Tasks :
       \/ FlowStart(t)
       \/ RateLimitWake(t)
       \/ HttpSuccess(t)
       \/ HttpFailure(t)
       \/ HttpError(t)
       \/ BackoffWake(t)
       \/ Cancel(t)
       \/ ProbeDeadline(t)
       \/ FlowResume(t)
       \/ FlowReloaded(t)
       \/ FlowClose(t)

SpecFlow == InitFlow /\ [][NextFlow]_vars

\* ------------------------------------------------- the config entry
\* Two installations are followed side by side through the same flows: they
\* are given the same usernames and, each, a password of its own (one of
\* three).
\* A username is the sequence of its characters.
Usernames == { << "a", "n", "n", "@", "x" >>, << "a", "l" >> }

\* config_flow.py:36-56, 78-85  the entry the user step creates
CreateEntry(username, password) ==
  [title |-> username,
   data |-> [username |-> username, password |-> password],
   options |-> EmptyDict]

\* config_flow.py:109-121  the reauth step stores the new password
ReauthEntry(entry, password) == [entry EXCEPT !.data.password = password]

\* config_flow.py:155-177  the options step: the credentials go to the entry
\* data (the update writes the same values when they did not change), and the
\* whole user_input becomes the options
OptionsEntry(entry, username, password) ==
  LET user_input == [username |-> username, password |-> password]
  IN [entry EXCEPT !.data = user_input, !.options = user_input]

\* diagnostics.py:11-43  async_get_config_entry_diagnostics, as far as the
\* config entry goes
Diagnostics(entry) ==
  [title |-> entry.title,
   username |-> SubSeq(entry.data.username, 1, IF Len(entry.data.username) < 3
                                                  THEN Len(entry.data.username) ELSE 3)
                \o << "*", "*", "*" >>,
   has_password |-> "password" \in DOMAIN entry.data,
   options |-> entry.options]

\* config_flow.py:32-56  setup: the user step creates the entries
SetupFlow(p, q) ==
  /\ input.fn = "entry"
  /\ output = NoOutput
  /\ output' = [result |-> "setup", decoded |-> FALSE,
                left |-> CreateEntry(input.username, p),
                right |-> CreateEntry(input.username, q)]
  /\ UNCHANGED << clock, last_request, pc, step, attempt, rl_now, wakeAt, deadline,
                  result, outcome, reqLog, httpCount, lastResp, sentAt, failedAt,
                  failKind, prevSendAt, lastSendAt, cancelled, sessionValid, portal,
                  dateParse, input >>
  /\ UNCHANGED coordVars
  /\ UNCHANGED cycleVars

\* config_flow.py:107-121  a re-authentication that succeeds
ReauthFlow(p, q) ==
  /\ input.fn = "entry"
  /\ output # NoOutput
  /\ output' = [output EXCEPT !.result = "reauth",
                              !.left = ReauthEntry(@, p), !.right = ReauthEntry(@, q)]
  /\ UNCHANGED << clock, last_request, pc, step, attempt, rl_now, wakeAt, deadline,
                  result, outcome, reqLog, httpCount, lastResp, sentAt, failedAt,
                  failKind, prevSendAt, lastSendAt, cancelled, sessionValid, portal,
                  dateParse, input >>
  /\ UNCHANGED coordVars
  /\ UNCHANGED cycleVars

\* config_flow.py:155-177  an options flow whose login succeeds
OptionsFlow(username, p, q) ==
  /\ input.fn = "entry"
  /\ output # NoOutput
  /\ output' = [output EXCEPT !.result = "options",
                              !.left = OptionsEntry(@, username, p),
                              !.right = OptionsEntry(@, username, q)]
  /\ UNCHANGED << clock, last_request, pc, step, attempt, rl_now, wakeAt, deadline,
                  result, outcome, reqLog, httpCount, lastResp, sentAt, failedAt,
                  failKind, prevSendAt, lastSendAt, cancelled, sessionValid, portal,
                  dateParse, input >>
  /\ UNCHANGED coordVars
  /\ UNCHANGED cycleVars

InitEntry ==
  /\ InitWith({}, GoodAnswer)
  /\ input \in { [fn |-> "entry", username |-> u] : u \in Usernames }
  /\ history = EmptyDict
  /\ modelFit = DefaultModel
  /\ stored = NoStore
  /\ wallclock = StartOfDay
  /\ dateParse = "aware"

NextEntry ==
  \E p \in { "hunter2", "s3cret", "pa55" }, q \in { "hunter2", "s3cret", "pa55" } :
     \/ SetupFlow(p, q)
     \/ ReauthFlow(p, q)
     \/ \E u \in Usernames : OptionsFlow(u, p, q)

SpecEntry == InitEntry /\ [][NextEntry]_vars

\* ----------------------------------------- functions applied on their own
\* api.py:120-130  _verify_response_headers(status, url, allow_login)
VerifyResponseHeadersCall ==
  /\ input.fn = "verify_response_headers"
  /\ output = NoOutput
  /\ output' = [result |-> VerifyResponseHeaders(input.url, input.allow_login),
                decoded |-> FALSE]
  /\ UNCHANGED << clock, last_request, pc, step, attempt, rl_now, wakeAt, deadline,
                  result, outcome, reqLog, httpCount, lastResp, sentAt, failedAt,
                  failKind, prevSendAt, lastSendAt, cancelled, sessionValid, portal,
                  dateParse, input >>
  /\ UNCHANGED coordVars
  /\ UNCHANGED cycleVars

\* api.py:132-178  _verify_content(content)
VerifyContentCall ==
  /\ input.fn = "verify_content"
  /\ output = NoOutput
  /\ output' = [result |-> VerifyContent(input.body), decoded |-> FALSE]
  /\ UNCHANGED << clock, last_request, pc, step, attempt, rl_now, wakeAt, deadline,
                  result, outcome, reqLog, httpCount, lastResp, sentAt, failedAt,
                  failKind, prevSendAt, lastSendAt, cancelled, sessionValid, portal,
                  dateParse, input >>
  /\ UNCHANGED coordVars
  /\ UNCHANGED cycleVars

\* api.py:247-296  _parse_xls_data(content)
ParseXlsDataCall ==
  /\ input.fn = "parse_xls_data"
  /\ output = NoOutput
  /\ output' = [result |-> ParseXlsData(input.body),
                decoded |-> ReachesDecoder(input.body),
                data |-> IF ReachesDecoder(input.body) THEN ParseImpl(input.body)
                         ELSE ParseFailure(VerifyContent(input.body))]
  /\ UNCHANGED << clock, last_request, pc, step, attempt, rl_now, wakeAt, deadline,
                  result, outcome, reqLog, httpCount, lastResp, sentAt, failedAt,
                  failKind, prevSendAt, lastSendAt, cancelled, sessionValid, portal,
                  dateParse, input >>
  /\ UNCHANGED coordVars
  /\ UNCHANGED cycleVars

\* coordinator.py:88-195  _recalculate_model() on the History and the model
\* handed in
RecalculateModelCall ==
  /\ input.fn = "recalculate_model"
  /\ output = NoOutput
  /\ modelFit' \in RecalculateModel(history, modelFit)
  /\ output' = [result |-> "ok", decoded |-> FALSE]
  /\ UNCHANGED << clock, last_request, pc, step, attempt, rl_now, wakeAt, deadline,
                  result, outcome, reqLog, httpCount, lastResp, sentAt, failedAt,
                  failKind, prevSendAt, lastSendAt, cancelled, sessionValid, portal,
                  dateParse, input >>
  /\ UNCHANGED << history, unsaved_keys, stored, saving, wallclock, update_interval >>
  /\ UNCHANGED cycleVars

\* the days of History: the first (1 while it has held none) and the last
FirstDay(h) == IF DOMAIN h = {} THEN 1 ELSE CHOOSE d \in 1..MaxRecords : Date(d, "date") \in DOMAIN h /\ \A k \in DOMAIN h : k.day >= d
LastDay(h) == IF DOMAIN h = {} THEN 0 ELSE CHOOSE d \in 1..MaxRecords : Date(d, "date") \in DOMAIN h /\ \A k \in DOMAIN h : k.day <= d

\* what is observed of a recalculation: the usable points added to History
\* since the last full search, this step's included
Observed(how, h, m) ==
  [result |-> how, decoded |-> FALSE,
   added |-> IF m.last_optimization_count # modelFit.last_optimization_count THEN 0
             ELSE (IF output = NoOutput THEN 0 ELSE output.added)
                  + Cardinality(DataPoints(h) \ DOMAIN history)]

\* coordinator.py:244-252, 278-279  a cycle merges the days of the series up
\* to day n and recalculates
MergeThenRecalculate(n) ==
  /\ input.fn \in {"series", "steady"}
  /\ n \in DOMAIN input.temps
  /\ n > LastDay(history)
  /\ history' = SeriesHistory(input, FirstDay(history), n)
  /\ modelFit' \in RecalculateModel(history', modelFit)
  /\ output' = Observed("merged", history', modelFit')
  /\ UNCHANGED << clock, last_request, pc, step, attempt, rl_now, wakeAt, deadline,
                  result, outcome, reqLog, httpCount, lastResp, sentAt, failedAt,
                  failKind, prevSendAt, lastSendAt, cancelled, sessionValid, portal,
                  dateParse, input >>
  /\ UNCHANGED << unsaved_keys, stored, saving, wallclock, update_interval >>
  /\ UNCHANGED cycleVars

\* coordinator.py:254-279  a cycle prunes the days up to day k, one day at
\* least being kept, and recalculates
PruneThenRecalculate(k) ==
  /\ input.fn \in {"series", "steady"}
  /\ FirstDay(history) <= k /\ k < LastDay(history)
  /\ history' = SeriesHistory(input, k + 1, LastDay(history))
  /\ modelFit' \in RecalculateModel(history', modelFit)
  /\ output' = Observed("pruned", history', modelFit')
  /\ UNCHANGED << clock, last_request, pc, step, attempt, rl_now, wakeAt, deadline,
                  result, outcome, reqLog, httpCount, lastResp, sentAt, failedAt,
                  failKind, prevSendAt, lastSendAt, cancelled, sessionValid, portal,
                  dateParse, input >>
  /\ UNCHANGED << unsaved_keys, stored, saving, wallclock, update_interval >>
  /\ UNCHANGED cycleVars

\* coordinator.py:63, 279  _recalculate_model() once more on the History as it
\* stands
RecalculateAgain ==
  /\ input.fn \in {"series", "steady"}
  /\ output # NoOutput
  /\ modelFit' \in RecalculateModel(history, modelFit)
  /\ output' = Observed("repeated", history, modelFit')
  /\ UNCHANGED << clock, last_request, pc, step, attempt, rl_now, wakeAt, deadline,
                  result, outcome, reqLog, httpCount, lastResp, sentAt, failedAt,
                  failKind, prevSendAt, lastSendAt, cancelled, sessionValid, portal,
                  dateParse, input >>
  /\ UNCHANGED << history, unsaved_keys, stored, saving, wallclock, update_interval >>
  /\ UNCHANGED cycleVars

InitModel ==
  /\ InitWith({}, GoodAnswer)
  /\ input \in SampleSeries
  /\ history = EmptyDict
  /\ modelFit = DefaultModel
  /\ stored = NoStore
  /\ wallclock = StartOfDay
  /\ dateParse = "aware"

NextModel ==
  \/ \E n \in 1..MaxRecords : MergeThenRecalculate(n)
  \/ \E k \in 1..MaxRecords : PruneThenRecalculate(k)
  \/ RecalculateAgain

SpecModel == InitModel /\ [][NextModel]_vars

InitCheck ==
  /\ InitWith({}, GoodAnswer)
  /\ input \in CheckInputs
  /\ IF input.fn = "recalculate_model"
     THEN /\ history \in { SampleHistory(n, u, l) :
                           n \in 0..MaxRecords, u \in 0..MaxRecords, l \in {"usage", "avg_temp"} }
          /\ modelFit \in { DefaultModel, [base_load |-> 150, heating_coeff |-> 1000, balance_temp |-> 65, r_squared |-> 10000, last_optimization_count |-> 10] }
     ELSE history = EmptyDict /\ modelFit = DefaultModel
  /\ stored = NoStore
  /\ wallclock = StartOfDay
  /\ dateParse = "aware"

NextCheck ==
  \/ VerifyResponseHeadersCall
  \/ VerifyContentCall
  \/ ParseXlsDataCall
  \/ RecalculateModelCall

SpecCheck == InitCheck /\ [][NextCheck]_vars

\* ============================================================ claims
InRetryLoop == {"rl_sleep", "http", "backoff"}

\* The logical request of task t has just ended (returned or raised).
RequestEnded(t) == pc[t] = "returned" /\ step[t] # "parse"

\* The request of task t was stopped from outside (cancellation or the
\* probe's timeout) rather than by its own retry loop.
Stopped(t) ==
  \/ cancelled[t] # "no"
  \/ pc[t] = "returned" /\ result[t].kind = "raise" /\ result[t].byDeadline

\* C1: for one client, any two consecutive outbound HTTP requests start at
\* least the minimum request interval apart, also when the earlier of the two
\* had itself waited in the rate limit.
C1_MinSpacing ==
  prevSendAt # None => lastSendAt - prevSendAt >= MinRequestInterval

\* C4: a logical request makes at most 3 HTTP attempts, returns on the first
\* 200 or 302 response without a further attempt, otherwise ends with
\* APIError; it ends with a result or an error.
C4_RetryBound ==
  \A t \in Tasks :
    /\ httpCount[t] <= 3
    /\ lastResp[t] \in {200, 302} => pc[t] \notin InRetryLoop
    /\ RequestEnded(t) =>
         /\ result[t].kind \in {"ok", "raise"}
         /\ lastResp[t] \in {200, 302} =>
              result[t].kind = "ok" /\ result[t].status = lastResp[t]
         /\ result[t].kind = "ok" => lastResp[t] \in {200, 302}
         /\ (lastResp[t] \notin {200, 302} /\ ~Stopped(t)) =>
              result[t] = Raise("APIError")

\* C4 witness: a request that failed twice returns on its third attempt.
C4_Witness ==
  \E t \in Tasks : RequestEnded(t) /\ httpCount[t] = 3 /\ result[t].kind = "ok"

\* C5: after a transient failure on attempt k that is not the last (transport
\* error, timeout or 5xx), the next attempt's request is sent no sooner than
\* 2^(k-1) seconds after the failure.
C5_BackoffBeforeRetry ==
  \A t \in Tasks :
    (pc[t] = "http" /\ failedAt[t] # None) =>
       sentAt[t] - failedAt[t] >= 2 ^ (attempt[t] - 1)

\* C6: a response that is neither 200 nor 302 is retried iff its status is
\* 5xx: a 5xx ends the request only with the 3 attempts exhausted, any other
\* status ends it at once with APIError.
C6_RetryIffServerError ==
  \A t \in Tasks :
    (lastResp[t] # None /\ lastResp[t] \notin {200, 302} /\ ~Stopped(t)) =>
       IF lastResp[t] \in 500..599
       THEN RequestEnded(t) => httpCount[t] = 3
       ELSE /\ pc[t] \notin InRetryLoop
            /\ RequestEnded(t) => result[t] = Raise("APIError")

\* C7: a cancellation delivered at an await of a logical request stops it at
\* once: the task sends no further request and sleeps no more, its caller sees
\* CancelledError (not APIError), and the coordinator reports neither
\* UpdateFailed nor a re-authentication for the cycle.
C7_CancelPropagates ==
  \A t \in Tasks :
    cancelled[t] # "no" =>
       /\ pc[t] \in {"returned", "done"}
       /\ pc[t] = "returned" => result[t] = Raise("CancelledError")
       /\ pc[t] = "done" =>
            outcome[t] = [raised |-> "CancelledError", reauth |-> FALSE,
                          cause |-> "CancelledError"]

\* C7 witness: a cycle cancelled in a backoff sleep has ended.
C7_Witness ==
  \E t \in Tasks : cancelled[t] = "backoff" /\ pc[t] = "done"

\* Some segment of the final URL is `name`, compared in lower case.
HasSegment(url, name) == \E i \in DOMAIN url : Lower(url[i]) = name

IsLoginUrl(url) == HasSegment(url, "login.html") \/ HasSegment(url, "authenticate.html")

IsErrorUrl(url) == HasSegment(url, "successerrormessage.html")

\* C8: check_session returns true exactly when the probe request succeeds,
\* its final URL is neither a login/authenticate nor a portal-error URL and
\* its body passes content verification; on every other outcome except a
\* cancellation it returns false and raises nothing.
C8_ProbeVerdict ==
  [][ \A t \in Tasks :
        (pc[t] = "returned" /\ step[t] = "probe" /\ cancelled[t] = "no") =>
           LET r == result[t]
               passes == /\ r.kind = "ok"
                         /\ ~IsLoginUrl(r.url)
                         /\ ~IsErrorUrl(r.url)
                         /\ VerifyContent(r.body) = "ok"
           IN /\ sessionValid'[t] = IF passes THEN "True" ELSE "False"
              /\ pc'[t] # "done" ]_vars

\* C8 witness: check_session has returned false and the login sequence began.
C8_Witness ==
  \E t \in Tasks :
    sessionValid[t] = "False" /\ Len(reqLog[t]) = 2 /\ pc[t] \in InRetryLoop

StepsOf(t) == [i \in DOMAIN reqLog[t] |-> reqLog[t][i].step]

IsPrefix(a, b) == Len(a) <= Len(b) /\ \A i \in DOMAIN a : a[i] = b[i]

C9_Order(t) ==
  /\ sessionValid[t] = "unknown" => StepsOf(t) \in { << >>, <<"probe">> }
  /\ sessionValid[t] = "True" => StepsOf(t) = <<"probe", "download">>
  /\ sessionValid[t] = "False" =>
       /\ Len(reqLog[t]) >= 2
       /\ IsPrefix(StepsOf(t), <<"probe", "login_get", "login_post", "landing", "download">>)
  /\ \A i \in DOMAIN reqLog[t] :
       LET q == reqLog[t][i]
       IN /\ q.step = "login_get" => q.method = "get" /\ q.url = "login.html"
          /\ q.step = "login_post" =>
               /\ q.method = "post" /\ q.url = "authenticate.html"
               /\ {"username", "password"} \subseteq DOMAIN q.data
               /\ q.data["username"] = "user@example.com"
               /\ q.data["password"] = "secret"
          /\ q.step = "landing" => q.method = "get" /\ q.url = "UsageHistoryLanding.html"

C9_Gate(t) ==
  /\ (step'[t] # step[t] /\ step'[t] \in {"login_post", "landing"}) =>
        pc[t] = "returned" /\ result[t].kind = "ok"
  /\ (step[t] = "login_get" /\ step'[t] = "login_post") =>
        LET inputs == result[t].body.inputs
            data == reqLog'[t][Len(reqLog'[t])].data
        IN \A i \in DOMAIN inputs :
             (inputs[i].name \notin {"username", "password", "button.Login"}
              /\ \A j \in DOMAIN inputs : j > i => inputs[j].name # inputs[i].name)
             => /\ inputs[i].name \in DOMAIN data
                /\ data[inputs[i].name] = inputs[i].value

\* C9: login() enters the login sequence only if the probe failed; a
\* successful probe is followed by no login request; a failed probe is
\* followed by GET login page, POST authenticate (the client's username and
\* password plus the tokens scraped from the login page) and GET landing page,
\* in that order, each issued only after the one before it succeeded.
C9_LoginSequence ==
  [][ \A t \in Tasks : C9_Order(t)' /\ C9_Gate(t) ]_vars

\* C9 witness: after a failed probe all three login requests were issued, the
\* POST carrying a scraped token, and the download follows.
C9_Witness ==
  \E t \in Tasks :
    /\ sessionValid[t] = "False"
    /\ StepsOf(t) = <<"probe", "login_get", "login_post", "landing", "download">>
    /\ "formId" \in DOMAIN reqLog[t][3].data

\* C10 as claimed: a step-2 or step-3 response whose final URL is a
\* login/authenticate URL or the portal error page makes login() fail with
\* AuthenticationError.
C10_Original ==
  [][ \A t \in Tasks :
        (/\ pc[t] = "returned" /\ step[t] \in {"login_post", "landing"}
         /\ result[t].kind = "ok"
         /\ (IsLoginUrl(result[t].url) \/ IsErrorUrl(result[t].url)))
        => pc'[t] = "done" /\ outcome'[t].cause = "AuthenticationError" ]_vars

\* C10 amended: at step 3 a login/authenticate final URL fails login() with
\* AuthenticationError; at step 2 or 3 a portal-error final URL fails it with
\* APIError (at step 3 the login check comes first); at step 2 a
\* login/authenticate final URL passes the URL check, and the step then fails,
\* with AuthenticationError, exactly when its body fails content verification.
C10_UrlOutcomes ==
  [][ \A t \in Tasks :
        (/\ pc[t] = "returned" /\ step[t] \in {"login_post", "landing"}
         /\ result[t].kind = "ok")
        => LET u == result[t].url
               authFail == /\ pc'[t] = "done"
                           /\ outcome'[t] = [raised |-> "UpdateFailed", reauth |-> TRUE,
                                             cause |-> "AuthenticationError"]
               apiFail == /\ pc'[t] = "done"
                          /\ outcome'[t] = [raised |-> "UpdateFailed", reauth |-> FALSE,
                                            cause |-> "APIError"]
           IN /\ (step[t] = "landing" /\ IsLoginUrl(u)) => authFail
              /\ (IsErrorUrl(u) /\ ~(step[t] = "landing" /\ IsLoginUrl(u))) => apiFail
              /\ (step[t] = "login_post" /\ IsLoginUrl(u) /\ ~IsErrorUrl(u)) =>
                   IF VerifyContent(result[t].body) = "ok"
                   THEN step'[t] = "landing" /\ pc'[t] # "done"
                   ELSE authFail ]_vars

\* C10 witness: the POST ended on the portal error page and login() failed
\* with APIError.
C10_Witness ==
  \E t \in Tasks :
    /\ pc[t] = "done" /\ step[t] = "login_post" /\ result[t].kind = "ok"
    /\ IsErrorUrl(result[t].url)
    /\ outcome[t].cause = "APIError"

\* C2: when two callers use one client concurrently, their HTTP requests are
\* never in flight at the same time, and any two consecutive requests of the
\* client start at least the minimum request interval apart.
C2_GateSerializes ==
  /\ Cardinality({t \in Tasks : pc[t] = "http"}) <= 1
  /\ (prevSendAt # None => lastSendAt - prevSendAt >= MinRequestInterval)

\* C3: cycles of one coordinator never overlap - at most one cycle is between
\* its beginning and its end, so no cycle merges, prunes or saves while
\* another is suspended at one of its awaits.
C3_CyclesNeverOverlap ==
  Cardinality({t \in Tasks : pc[t] \in CycleAwaits}) <= 1

\* C11: a failed cycle starts the re-authentication flow iff it failed with
\* AuthenticationError; every other failure (APIError, DataParseError, a
\* transport error, an unexpected exception) ends as UpdateFailed without it,
\* and only a cancellation escapes as anything but UpdateFailed.
C11_ReauthIffAuthFailure ==
  \A t \in Tasks :
    (pc[t] = "done" /\ outcome[t] # Returned) =>
       /\ outcome[t].reauth <=> outcome[t].cause = "AuthenticationError"
       /\ IF cancelled[t] # "no"
          THEN outcome[t].raised = "CancelledError"
          ELSE outcome[t].raised = "UpdateFailed"

\* C11 witness: one cycle failed on an unexpected exception, another on an
\* authentication failure that started the re-authentication.
C11_Witness ==
  \E t, u \in Tasks :
    /\ pc[t] = "done" /\ outcome[t].cause = "KeyError" /\ ~outcome[t].reauth
    /\ pc[u] = "done" /\ outcome[u].cause = "AuthenticationError" /\ outcome[u].reauth

\* the hours from `now` to the next 07:00 strictly after it
HoursToSeven(now) == CHOOSE d \in 1..24 : (now + d) % 24 = 7

IsPortalPage(body) ==
  /\ ~body.empty
  /\ body.start \in {"<!DOCTYP", "<html", "<HTML"}
  /\ \E p \in body.phrases :
       ~p.beyond /\ Lower(p.text) \in LoginIndicators \cup ErrorIndicators

\* C13: _parse_xls_data verifies the raw payload before any decoding - a
\* login or session-ended page is rejected with AuthenticationError, never
\* with DataParseError, and the decoder is not reached.
C13_VerifiedBeforeDecoding ==
  (input.fn = "parse_xls_data" /\ output # NoOutput /\ IsPortalPage(input.body)) =>
     output.result = "AuthenticationError" /\ ~output.decoded

\* C13 witness: a page with <h1>Login</h1> that pandas could not decode was
\* rejected as an authentication failure.
C13_Witness ==
  /\ input.fn = "parse_xls_data" /\ output.result = "AuthenticationError"
  /\ Near("<H1>Login</H1>") \in input.body.phrases /\ ~input.body.decodes

\* C14: a final URL containing login.html or authenticate.html (in any case)
\* is an AuthenticationError unless the caller allowed login URLs; otherwise
\* one containing successerrormessage.html is an APIError; otherwise the
\* check passes. The login check comes first.
C14_UrlClassification ==
  (input.fn = "verify_response_headers" /\ output # NoOutput) =>
     output.result =
       IF IsLoginUrl(input.url) /\ ~input.allow_login THEN "AuthenticationError"
       ELSE IF IsErrorUrl(input.url) THEN "APIError"
       ELSE "ok"

\* C14 witness: a URL matching both, login not allowed, is an authentication
\* failure.
C14_Witness ==
  /\ input.fn = "verify_response_headers" /\ ~input.allow_login
  /\ IsLoginUrl(input.url) /\ IsErrorUrl(input.url)
  /\ output.result = "AuthenticationError"

\* C15: _verify_content raises AuthenticationError exactly for a body that,
\* after its leading whitespace, starts with an HTML/DOCTYPE marker and has a
\* login or error indicator in its lowercased first 10000 bytes; an empty
\* body, a body without the marker and a marked body without an indicator in
\* that prefix are accepted.
C15_ContentClassification ==
  (input.fn = "verify_content" /\ output # NoOutput) =>
     output.result = IF IsPortalPage(input.body) THEN "AuthenticationError" ELSE "ok"

\* C15 witness: a page behind leading whitespace, its indicator in capitals,
\* was rejected.
C15_Witness ==
  /\ input.fn = "verify_content" /\ input.body.lead
  /\ input.body.phrases = {Near("Session Expired")}
  /\ output.result = "AuthenticationError"

\* The calendar day a History key stands for.
DayOf(key) == key.day

\* C17: History never holds two records for one calendar day - every key is
\* the YYYY-MM-DD string of its record's date, whatever form the fetched
\* record carried.
C17_OneRecordPerDay ==
  /\ \A k \in DOMAIN history : k.form = "date" /\ DayOf(k) = DayOf(history[k].date)
  /\ \A j, k \in DOMAIN history : DayOf(j) = DayOf(k) => j = k

\* The payload has dated records, and the keys they would be merged under
\* are all in History already.
AllPresent(feed, h) ==
  /\ \E i \in DOMAIN feed : feed[i].date.form # "none"
  /\ \A i \in DOMAIN feed :
       (feed[i].date.form # "none") =>
          (IF feed[i].date.form = "datetime"
           THEN [day |-> feed[i].date.day, form |-> "date"]
           ELSE feed[i].date) \in DOMAIN h

\* Task t's step handles the payload its fetch returned.
Ingests(t) == pc[t] = "fetch" /\ pc'[t] # "fetch" /\ new_history'[t] # << >>

\* No step changes the record held under a key.
KeysKeepRecords == \A k \in DOMAIN history \cap DOMAIN history' : history'[k] = history[k]

C18_PruneExact ==
  [][ \A t \in Tasks :
        Ingests(t) =>
           /\ \A k \in DOMAIN history' : ~(k.day * 24 < wallclock - 90 * 24)
           /\ \A k \in DOMAIN history :
                ~(k.day * 24 < wallclock - 90 * 24) => k \in DOMAIN history'
           /\ \A k \in unsaved_keys' : ~(k.day * 24 < wallclock - 90 * 24) ]_vars

\* C19: History is loaded from the store at most once in the coordinator's
\* lifetime - once a cycle's load has run, no later cycle calls
\* _async_load_history again, whatever History then holds.
C19_LoadedOnce ==
  [][ \A t \in Tasks :
        (pc[t] # "load" /\ pc'[t] = "load") => ~history_loaded ]_vars

\* C20: after a recalculation on a History with fewer than 10 usable points
\* (usage > 0 and a known avg_temp) the model is the defaults, however many
\* records History has and whatever model was held before.
C20_DefaultsBelowTenPoints ==
  (input.fn = "recalculate_model" /\ output # NoOutput) =>
     LET usable == { k \in DOMAIN history :
                       history[k].usage > 0 /\ history[k].avg_temp # -1 }
     IN Cardinality(usable) < 10 => modelFit = DefaultModel

\* the number of records the History holds
Held == Cardinality(DOMAIN history)

\* C21: whatever was merged and recalculated, the model holds a base_load
\* of at least 0.1, a heating_coeff of at least 0 and a balance_temp within
\* 50..80.
C21_ModelWithinBounds ==
  /\ modelFit.base_load >= 10
  /\ modelFit.heating_coeff >= 0
  /\ modelFit.balance_temp >= 50
  /\ modelFit.balance_temp <= 80

\* C22: the model is a function of the History alone - after a
\* recalculation the coefficients are those a coordinator fresh from
\* __init__ computes from the same History.
C22_ModelFromHistoryAlone ==
  (input.fn \in {"series", "steady"} /\ output # NoOutput) =>
     \E m \in RecalculateModel(history, DefaultModel) :
        /\ m.base_load = modelFit.base_load
        /\ m.heating_coeff = modelFit.heating_coeff
        /\ m.balance_temp = modelFit.balance_temp
        /\ m.r_squared = modelFit.r_squared

\* the temperatures of the records held
HeldTemps == { history[k].avg_temp : k \in DOMAIN history }

\* the History was generated with a positive heating coefficient and the
\* last recalculation on it was a full search over at least 10 points
FullSearchOnSeries ==
  /\ input.fn \in {"series", "steady"}
  /\ input.c > 0
  /\ output # NoOutput
  /\ Held >= 10
  /\ output.added = 0
  /\ modelFit.last_optimization_count = Held

\* the generating coefficients are recovered within the tolerances
Recovered ==
  /\ modelFit.base_load - input.b < 5
  /\ input.b - modelFit.base_load < 5
  /\ modelFit.heating_coeff - 100 * input.c < 100
  /\ 100 * input.c - modelFit.heating_coeff < 100
  /\ modelFit.balance_temp = input.T
  /\ modelFit.r_squared > 9900

Parsed == input.fn = "parse_xls_data" /\ output # NoOutput

\* C24: a payload that starts with a markup marker, holds no login or error
\* indicator and contains the table Date, Consumption / 01/30/2026, 10.5 is
\* parsed to total_usage 10.5 and latest_usage 10.5.
C24_MarkupTableParsed ==
  ( /\ Parsed
    /\ input.body.start \in {"<!DOCTYP", "<html", "<HTML"}
    /\ input.body.phrases = {}
    /\ input.body.table = Table(<< "Date", "Consumption" >>, << << "01/30/2026", "10.5" >> >>) )
  => /\ output.result = "ok"
     /\ output.data.total_usage = 1050
     /\ output.data.latest_usage = 1050

\* the payload, once stripped, is a well-formed spreadsheet of either format
Decodable ==
  input.body.start \in {"xlsx", "xls"} /\ input.body.decodes

\* the header cells that read 'consumption' and those that contain 'date'
\* once lowercased and trimmed
NamesConsumption == \E i \in DOMAIN input.body.table.columns :
                      input.body.table.columns[i] \in {"Consumption", " CONSUMPTION "}
NamesDate == \E i \in DOMAIN input.body.table.columns :
               input.body.table.columns[i] \in {"Date", "Read Date"}

\* C25: on a payload that passes the content verification _parse_xls_data
\* raises DataParseError exactly when no decoder reads it or the table has
\* no consumption column; a table with a consumption column and no date
\* column gives latest_date = None and billing_period_start = None.
C25_ParseErrorExactly ==
  (Parsed /\ output.decoded) =>
     /\ output.result = "DataParseError" <=> (~Decodable \/ ~NamesConsumption)
     /\ output.result \in {"DataParseError", "ok"}
     /\ (Decodable /\ NamesConsumption /\ ~NamesDate) =>
           /\ output.result = "ok"
           /\ output.data.latest_date = "None"
           /\ output.data.billing_period_start = "None"

C25_Witness ==
  /\ Parsed /\ output.decoded
  /\ Decodable /\ ~NamesDate
  /\ input.body.table.columns = << "Consumption" >>
  /\ output.result = "ok"

\* the payload without the whitespace that leads it
WithoutNoise(body) == IF body.start = "" THEN EmptyBody ELSE [body EXCEPT !.lead = FALSE]

\* C26: a payload led by CR/LF noise is parsed to what the payload without
\* the noise is parsed to - the same result or the same exception.
C26_LeadingNoiseIgnored ==
  (Parsed /\ input.body.lead) =>
     /\ output.result = ParseXlsData(WithoutNoise(input.body))
     /\ output.result = "ok" =>
          output.data = ParseImpl(WithoutNoise(input.body))

C26_Witness ==
  /\ Parsed /\ input.body.lead
  /\ input.body.start = "xls"
  /\ output.result = "ok"
  /\ output.data.total_usage = 1350

\* the rows of the payload's table, and those whose cell at position c is a
\* number
Rows == input.body.table.rows
IsNumber(cell) == cell \in {"10.5", "3", "0", "-2.25"}
Hundredths(cell) ==
  CASE cell = "10.5" -> 1050 [] cell = "3" -> 300 [] cell = "0" -> 0 [] cell = "-2.25" -> 0 - 225

RECURSIVE SumCells(_, _)
SumCells(c, n) ==
  IF n = 0 THEN 0
  ELSE (IF IsNumber(Rows[n][c]) THEN Hundredths(Rows[n][c]) ELSE 0) + SumCells(c, n - 1)

\* total_usage is the sum of the numbers in column c, latest_usage the last
\* of them or 0
SumAndLast(c) ==
  /\ output.data.total_usage = SumCells(c, Len(Rows))
  /\ IF \E n \in DOMAIN Rows : IsNumber(Rows[n][c])
     THEN \E n \in DOMAIN Rows :
            /\ IsNumber(Rows[n][c])
            /\ \A k \in DOMAIN Rows : k > n => ~IsNumber(Rows[k][c])
            /\ output.data.latest_usage = Hundredths(Rows[n][c])
     ELSE output.data.latest_usage = 0

\* the position of the consumption column
ConsumptionAt(c) ==
  c \in DOMAIN input.body.table.columns
  /\ input.body.table.columns[c] \in {"Consumption", " CONSUMPTION "}

\* C27 as stated: total_usage is the sum of the coercible consumption values
\* and never negative.
C27_Original ==
  (Parsed /\ output.result = "ok") =>
     /\ \A c \in 1..2 : ConsumptionAt(c) => SumAndLast(c)
     /\ output.data.total_usage >= 0

\* C27: total_usage is the sum of the consumption values that coerce to a
\* number, the other rows contributing nothing, and it is not negative when
\* none of those values is; latest_usage is the last of them, or 0 when
\* there is none.
C27_SumOfCoercible ==
  (Parsed /\ output.result = "ok") =>
     /\ \A c \in 1..2 : ConsumptionAt(c) => SumAndLast(c)
     /\ (\A c \in 1..2 : ConsumptionAt(c) =>
           \A n \in DOMAIN Rows : IsNumber(Rows[n][c]) => Hundredths(Rows[n][c]) >= 0)
        => output.data.total_usage >= 0

C27_Witness ==
  /\ Parsed /\ output.result = "ok"
  /\ Len(Rows) = 3 /\ ~IsNumber(Rows[3][2])
  /\ output.data.total_usage = 1350
  /\ output.data.latest_usage = 1050

\* ------------------------------------------------------------ C28
\* the try block of the validation ended with exc and the step is over
ValidationOver(t) == input.fn = "flow" /\ pc[t] = "done"

\* C28: a credential validation (initial setup, re-authentication, options)
\* issues requests of login() only - the probe, then at most the three login
\* requests in order - and never the usage download; and once the step is
\* over its client's session is closed, whether the login succeeded, raised
\* AuthenticationError or failed in any other way.
C28_ValidationLoginOnly ==
  input.fn = "flow" =>
    \A t \in { u \in Tasks : pc[u] # "off" } :
      /\ IsPrefix(StepsOf(t), <<"probe", "login_get", "login_post", "landing">>)
      /\ pc[t] # "parse"
      /\ pc[t] # "idle" => output.session \in {"open", "closed"}
      /\ output # NoOutput /\ output.session = "closed" => pc[t] = "done"
      /\ ValidationOver(t) => output.session = "closed"

\* C28 witness: the POST of the credentials was answered by the login page,
\* the validation ended with invalid_auth and the session is closed.
C28_Witness ==
  /\ ValidationOver(1)
  /\ outcome[1].raised = "AuthenticationError"
  /\ StepsOf(1) = <<"probe", "login_get", "login_post">>
  /\ output.result = "invalid_auth"
  /\ output.session = "closed"

\* ------------------------------------------------------------ C29
\* the answer r to a request passed the verification of its final URL (a
\* login URL passes only where allow_login is given) and, where the content
\* is verified, of its content
PassedVerification(r, allow_login, content_verified) ==
  /\ r.kind = "ok"
  /\ ~IsErrorUrl(r.url)
  /\ allow_login \/ ~IsLoginUrl(r.url)
  /\ content_verified => ~IsPortalPage(r.body)

\* the step that begins in this step of task t, if one does
Begins(t, s) == step'[t] = s /\ step[t] # s

C29_Stages(t) ==
  /\ Begins(t, "login_post") =>
       step[t] = "login_get" /\ PassedVerification(result[t], TRUE, FALSE)
  /\ Begins(t, "landing") =>
       step[t] = "login_post" /\ PassedVerification(result[t], TRUE, TRUE)
  /\ Begins(t, "download") =>
       /\ pc[t] = "returned"
       /\ PassedVerification(result[t], FALSE, TRUE)
       /\ \/ StepsOf(t) = <<"probe">>
          \/ StepsOf(t) = <<"probe", "login_get", "login_post", "landing">>
  /\ Begins(t, "parse") =>
       /\ step[t] = "download"
       /\ PassedVerification(result[t], FALSE, TRUE)
       /\ result'[t] = [kind |-> "payload", body |-> result[t].body]
  /\ (pc'[t] = "done" /\ step[t] \in {"probe", "login_get", "login_post", "landing"}) =>
       \A i \in DOMAIN reqLog'[t] : reqLog'[t][i].step # "download"
  /\ pc[t] = "done" => reqLog'[t] = reqLog[t] /\ pc'[t] = "done"

\* C29: in an acquisition the download request is issued only after the
\* authentication of that acquisition succeeded - the probe passed
\* verification, or the three login requests were issued in order and each
\* answer passed its verification; parsing begins only on the payload of a
\* download whose final URL and content passed verification; an acquisition
\* that ends during authentication has issued no download request and
\* issues none afterwards.
C29_StagesGateEachOther ==
  [][ \A t \in Tasks : C29_Stages(t) ]_vars

\* C29 witness: the probe failed, the three login answers and the download's
\* answer passed verification, and the payload is at the parser.
C29_Witness ==
  /\ pc[1] = "parse"
  /\ sessionValid[1] = "False"
  /\ Len(reqLog[1]) = 5
  /\ result[1].kind = "payload"

\* ------------------------------------------------------------ C30
\* History, the unsaved keys, the store and the regression model
Kept == << history, unsaved_keys, stored, modelFit >>

\* this step ends the fetch of task t with an exception of the client
FailsBeforeMerge(t) ==
  pc[t] = "fetch" /\ pc'[t] = "done" /\ outcome'[t].cause \in FetchErrors

\* C30: from the beginning of the fetch of a cycle to the failure of that
\* fetch, History, the unsaved keys, the store and the regression model stay
\* what they were.
C30_FailedCycleLeavesState ==
  [][ \A t \in Tasks :
        (pc[t] = "fetch" /\ (pc'[t] = "fetch" \/ FailsBeforeMerge(t))) =>
           Kept' = Kept ]_vars

\* ------------------------------------------------------------ C31
\* this step ends the fetch of task t with data: the merge and prune step of
\* the cycle is over and no exception was raised
FetchSucceeds(t) ==
  pc[t] = "fetch" /\ (pc'[t] = "save_load" \/ (pc'[t] = "done" /\ outcome'[t] = Returned))

\* C31: pruning runs in every successful cycle, also when the fetch returned
\* no record: when the merge and prune step of a successful cycle is over,
\* History holds no record dated more than 90 days before the current time.
C31_PrunedEverySuccessfulCycle ==
  [][ \A t \in Tasks :
        FetchSucceeds(t) => \A k \in DOMAIN history' : ~TooOld(k, wallclock') ]_vars

\* ------------------------------------------------------------ C32
\* the keys the records fetched by task t in this step add to History
AddedKeys(t) ==
  { KeyOf(new_history'[t][i].date) :
      i \in { j \in DOMAIN new_history'[t] : HasDate(new_history'[t][j].date) } }
    \ DOMAIN history

\* the keys this step removes from History
RemovedKeys(t) == (DOMAIN history \cup AddedKeys(t)) \ DOMAIN history'

\* this step ends the fetch of task t with data or in the merge and prune
\* step that follows it
FetchHandled(t) == pc[t] = "fetch" /\ pc'[t] # "fetch" /\ ~FailsBeforeMerge(t) /\ cancelled'[t] = "no"

\* C32: the merge and prune step of a cycle is followed by a recalculation
\* of the model and by the save step exactly when it added or removed a key
\* of History; a cycle that changed no key recalculates nothing and writes
\* nothing to the store.
C32_RecalculateAndSaveIffChanged ==
  [][ \A t \in Tasks :
        FetchHandled(t) =>
          LET changed == AddedKeys(t) # {} \/ RemovedKeys(t) # {}
          IN /\ recalculations'[t] = recalculations[t] + 1 <=> changed
             /\ recalculations'[t] \in {recalculations[t], recalculations[t] + 1}
             /\ pc'[t] = "save_load" <=> (changed /\ unsaved_keys' # {})
             /\ ~changed => stored' = stored /\ modelFit' = modelFit ]_vars

\* ------------------------------------------------------------ C33
\* the usable points added to History since the last full search, those of
\* this step included
AddedSinceFullSearch ==
  (IF output = NoOutput THEN 0 ELSE output.added)
  + Cardinality(DataPoints(history') \ DOMAIN history)

\* this step's recalculation ran the full search: only the full search
\* assigns _last_optimization_count, and it assigns a count that differs
FullSearchRan == modelFit'.last_optimization_count # modelFit.last_optimization_count

\* C33: a recalculation runs the full grid search exactly when at least 10
\* usable points were added to History since the last full search, whatever
\* was pruned in between; any other recalculation on 10 records or more
\* keeps balance_temp and the count of the last full search.
C33_FullSearchEveryTenPoints ==
  [][ (input.fn \in {"series", "steady"} /\ output' # output) =>
        /\ FullSearchRan <=> AddedSinceFullSearch >= FullSearchStep
        /\ (~FullSearchRan /\ Cardinality(DOMAIN history') >= MinHistory) =>
              modelFit'.balance_temp = modelFit.balance_temp ]_vars

\* C34: a balance-temperature candidate whose degree-day inputs are all
\* identical is never selected - on a History of days of one temperature,
\* where every candidate of a full search and the candidate of a quick
\* update is such a one, a recalculation leaves the model fields unchanged.
C34_ZeroVarianceNeverSelected ==
  [][ (input.fn = "steady" /\ output' # output) =>
        /\ modelFit'.base_load = modelFit.base_load
        /\ modelFit'.heating_coeff = modelFit.heating_coeff
        /\ modelFit'.balance_temp = modelFit.balance_temp
        /\ modelFit'.r_squared = modelFit.r_squared ]_vars

\* C35: a markup body whose only matching phrase is the generic failure
\* phrase "temporary problem" is classified as a portal failure, APIError,
\* and not as an ended session, AuthenticationError.
C35_GenericFailureIsPortalError ==
  ( /\ input.fn = "verify_content" /\ output # NoOutput
    /\ StartsWith(LStrip(input.body), MarkupPrefixes)
    /\ HtmlText(input.body) \cap (LoginIndicators \cup ErrorIndicators) = {"temporary problem"} )
  => output.result = "APIError"

\* the storage write of task t's cycle succeeds
SaveSucceeds(t) == pc[t] = "save_write" /\ pc'[t] = "done" /\ unsaved_keys' = {}

\* C36: after a cycle that changed History and whose storage write did not
\* fail, the persisted history equals the in-memory History - every merged
\* key is stored with its record and every pruned key is absent from storage.
C36_StoredEqualsHistory ==
  [][ \A t \in Tasks : SaveSucceeds(t) => stored'.history = history' ]_vars

\* C37: once a record has been pruned from History - it was held, and is held
\* no more - no later cycle makes a record with that key present in History
\* again, unless the portal delivers that date within the retention window:
\* a key that was pruned is, when held again, not older than the window.
C37_PrunedStaysAway ==
  \A k \in { KeyOf(OldRecord.date) } :
     [](k \in DOMAIN history =>
          [](k \notin DOMAIN history =>
               [](k \in DOMAIN history => ~TooOld(k, wallclock))))

\* the save of task t's cycle fails: the load or the write raises
SaveFails(t) ==
  /\ cancelled'[t] = cancelled[t]
  /\ \/ pc[t] = "save_load" /\ pc'[t] = "done"
     \/ /\ pc[t] = "save_write" /\ pc'[t] = "done"
        /\ stored' # [present |-> TRUE, history |-> saving[t]]

\* C38: the unsaved keys are keys of History; a key leaves the unsaved set
\* only by being written to storage in a successful save or by being pruned;
\* and a save that fails leaves the unsaved set and History unchanged and
\* raises nothing to the cycle.
C38_UnsavedKeys ==
  [][ /\ unsaved_keys' \subseteq DOMAIN history'
      /\ \A k \in unsaved_keys \ unsaved_keys' :
            \/ k \notin DOMAIN history'
            \/ /\ \E t \in Tasks : pc[t] = "save_write" /\ pc'[t] = "done"
               /\ stored' # NoStore /\ k \in DOMAIN stored'.history
               /\ stored'.history[k] = history[k]
      /\ \A t \in Tasks :
            SaveFails(t) => /\ unsaved_keys' = unsaved_keys /\ history' = history
                            /\ outcome'[t] = Returned ]_vars

\* C39: every record merged into History is eventually written to storage
\* unless it is pruned first - a key that is unsaved eventually is unsaved no
\* more - provided cycles keep running and storage writes eventually succeed.
C39_UnsavedEventuallyWritten ==
  \A k \in { KeyOf(NewRecord.date) } :
     (k \in unsaved_keys) ~> (k \notin unsaved_keys)

\* C40: the diagnostics export never contains the account password - two
\* configurations that differ only in the password value yield identical
\* diagnostics output after any sequence of setup, re-authentication and
\* options-flow updates.
C40_DiagnosticsHidePassword ==
  (input.fn = "entry" /\ output # NoOutput) =>
     Diagnostics(output.left) = Diagnostics(output.right)

====
